---- MODULE Spec2Model ----
(***************************************************************************)
(* A model of the RTSP session actor of rtsp-image-capture-rs              *)
(* (src/src/camera/rtsp_session/mod.rs): the FrameHolder cache with its    *)
(* memoised sequential decode, the select! loop of session_loop, and the   *)
(* caller side (SessionInstanceManager / SessionInstance).                 *)
(*                                                                         *)
(* Vec indices are 0-based in the source and sequences are 1-based here:   *)
(* raw_frames[i] of the source is raw_frames[i + 1] of the model.          *)
(***************************************************************************)
EXTENDS Integers, Sequences, FiniteSets, TLC

\* ------------------------------------------------------------------ bounds
\* Video frames the transport delivers in one behaviour.
MaxFrames == 3
\* The clock (Instant::now()) runs from 0 to MaxTime.
MaxTime == 1
\* SessionConfig.buf_size is drawn from 0..MaxBuf.
MaxBuf == 3
\* SessionConfig.frame_lifetime, in ticks of the clock.
FrameLifetime == 0
\* FrameRequest::new(index) is called with an index in 0..MaxIdx.
MaxIdx == 2
\* The calls of request_image made in one behaviour, numbered in the order
\* they are made. A call is a task of its own: the second may overlap the
\* first or follow it (a retry).
Calls == {1, 2}
\* With the queue at its capacity, Overflow more calls of request_image are made.
Overflow == 2

\* A unit (NAL) of an AVCC input has 0..MaxUnitLen bytes, each 0 or 1, and an
\* input has at most MaxLen bytes, length prefixes included.
MaxUnitLen == 4
MaxLen == 12
PayloadBytes == {0, 1}

\* ------------------------------------------------------- program constants
\* sync::mpsc::channel(24) of registration requests.
SubscriberQueueCap == 24
\* sync::mpsc::channel::<FrameRequest>(32) of decode requests.
DataQueueCap == 32

\* Errors a decoder stage returns from ImageDecoder::decode: one of the
\* reformatter, one of the H.264 stage (FrameHolder::decode treats all alike).
DecoderFailures == {"NalOutOfBounds", "DecodeFail"}

VARIABLES
    cfg,            \* SessionConfig: [buf_size, frame_lifetime]
    frame_holder,   \* FrameHolder: [raw_frames, ts, decoded_frames]
    now,            \* the clock read by Instant::now()
    actor,          \* the spawned session_loop task: "bootstrap", "serving", "ended"
    manager,        \* the SessionInstanceManager: "alive", "dropped"
    subscriber_q,   \* the mpsc queue of registration requests (one-shot senders)
    data_req_q,     \* the mpsc queue of FrameRequests
    owner,          \* where the manager's owner is in request_instance
    owner_reply,    \* the one-shot channel of the registration request
    instances,      \* SessionInstances handed out so far
    pc,             \* where each call of request_image is
    call,           \* each call's FrameRequest: [rid, idx]
    reply,          \* each call's one-shot channel: what the actor sent
    ret,            \* history: the call that returned in the last step, if any
    nframes,        \* video frames delivered so far
    nreq,           \* request_image calls made so far
    ev,             \* history: the event the actor handled in the last step, if any
    ninv,           \* history: decoder calls [n] and images [ok] per raw frame of this epoch
    after_old,      \* history: a request was answered OldFrame, no key frame or request since
    probe,          \* history: the index that was one past the end, and what came since
    at_drop,        \* history: where each call was when the manager was dropped
    avcc_data,      \* the input of AVCCDecoder::decode
    buf,            \* AVCCDecoder.buf
    result,         \* what the last call of AVCCDecoder::decode returned
    prev,           \* history: the input and the result of the call before
    chained,        \* a decoder built by chain(): a stage, or a ChainedDecoder [a, b]
    chain_data,     \* the input of its decode
    chain_result,   \* what its decode returned
    chain_calls,    \* history: the stages its decode invoked, each with its input
    loop_pc,        \* where session_loop is: at select!, or inside the decode branch
    cur,            \* the decode request being handled, with the cache as it was dequeued
    session,        \* the transport stream: the item session.next() yields, and its end
    packet_off      \* select! has disabled its packet branch: the pattern did not match

\* The session actor and its callers; the length-prefix reformatter; the
\* decoder chain; the event loop taken in steps.
actorVars == <<cfg, frame_holder, now, actor, manager, subscriber_q, data_req_q,
               owner, owner_reply, instances, pc, call,
               reply, ret, nframes, nreq, ev, ninv, after_old, probe, at_drop>>
decoderVars == <<avcc_data, buf, result, prev>>
chainVars == <<chained, chain_data, chain_result, chain_calls>>

loopVars == <<loop_pc, cur, session, packet_off>>

vars == <<actorVars, decoderVars, chainVars, loopVars>>

\* ------------------------------------------------------------------ values
None == [kind |-> "None"]

\* No decoder chain has been built.
NoChain ==
    /\ chained = None
    /\ chain_data = <<>>
    /\ chain_result = None
    /\ chain_calls = <<>>

\* The event loop is not taken in steps.
NoLoop ==
    /\ loop_pc = "select"
    /\ cur = None
    /\ session = [item |-> None, closed |-> FALSE]
    /\ packet_off = FALSE

\* A coded video frame: VideoFrame::into_data() with is_random_access_point().
Frame(key, id) == [key |-> key, id |-> id]

\* What the external decoder chain makes of one coded frame.
Decoded(data) == [img |-> data.id]

DOk(v) == [ok |-> TRUE, val |-> v]
DErr(e) == [ok |-> FALSE, err |-> e]

\* SessionError values and the Ok(FrameResponse) of a decode request.
OldFrame == [kind |-> "OldFrame"]
BrokenPipeline == [kind |-> "BrokenPipeline"]
ServerDropped == [kind |-> "ServerDropped"]
DecodingError(e) == [kind |-> "DecodingError", err |-> e]
FrameResponse(frame, i_frame_ts) == [kind |-> "Ok", frame |-> frame, i_frame_ts |-> i_frame_ts]

\* ------------------------------------------------------------- FrameHolder
FrameHolder_new(t) == [raw_frames |-> <<>>, ts |-> t, decoded_frames |-> <<>>]

\* set_iframe that forgets to clear the memo.
set_iframe_keeps_memo(fh, iframe, t) ==
    [raw_frames |-> <<iframe>>, ts |-> t, decoded_frames |-> fh.decoded_frames]

set_iframe(fh, iframe, t) ==
    [raw_frames |-> <<iframe>>, ts |-> t, decoded_frames |-> <<>>]

add_image(fh, data) == [fh EXCEPT !.raw_frames = Append(@, data)]

\* drain that forgets to clear the memo.
drain_keeps_memo(fh, t) ==
    [raw_frames |-> <<>>, ts |-> t, decoded_frames |-> fh.decoded_frames]

drain(fh, t) == [raw_frames |-> <<>>, ts |-> t, decoded_frames |-> <<>>]

is_empty(fh) == fh.raw_frames = <<>>

raw_len(fh) == Len(fh.raw_frames)

elapsed(fh, t) == t - fh.ts

get_ts(fh) == fh.ts

\* Vec::get(index) mapped to a slice, or NoImageDecoded.
get_decoded(fh, index) ==
    IF index < Len(fh.decoded_frames)
    THEN DOk(fh.decoded_frames[index + 1])
    ELSE DErr("NoImageDecoded")

\* One call of the boxed decoder. The decoder is external and can fail on any
\* call: dec = [fail_at, err] makes the fail_at-th call of one decode request
\* fail with err (fail_at = 0: no call fails).
ImageDecoder_decode(dec, ncalls, data) ==
    IF dec.fail_at = ncalls + 1 THEN DErr(dec.err) ELSE DOk(Decoded(data))

\* FrameHolder::decode without the recursive call that decodes the frames
\* before index first.
decode_no_recursion(fh, dec, index) ==
    IF index >= Len(fh.raw_frames)
    THEN [fh |-> fh, calls |-> <<>>, res |-> DErr("IndexOutOfBounds")]
    ELSE IF index < Len(fh.decoded_frames)
    THEN [fh |-> fh, calls |-> <<>>, res |-> get_decoded(fh, index)]
    ELSE LET data == fh.raw_frames[index + 1]
             decoded == ImageDecoder_decode(dec, 0, data)
             pushed == [fh EXCEPT !.decoded_frames = Append(@, decoded.val)]
         IN  IF ~decoded.ok
             THEN [fh |-> fh, calls |-> <<data>>, res |-> decoded]
             ELSE [fh |-> pushed, calls |-> <<data>>,
                   res |-> DOk(pushed.decoded_frames[Len(pushed.decoded_frames)])]

\* FrameHolder::decode without the lookup of the memo: the frame at index is
\* decoded and pushed again.
RECURSIVE decode_no_memo(_, _, _)
decode_no_memo(fh, dec, index) ==
    IF index >= Len(fh.raw_frames)
    THEN [fh |-> fh, calls |-> <<>>, res |-> DErr("IndexOutOfBounds")]
    ELSE LET pre == IF Len(fh.decoded_frames) < index
                    THEN decode_no_memo(fh, dec, index - 1)
                    ELSE [fh |-> fh, calls |-> <<>>, res |-> DOk(None)]
         IN  IF ~pre.res.ok
             THEN pre
             ELSE LET data == pre.fh.raw_frames[index + 1]
                      decoded == ImageDecoder_decode(dec, Len(pre.calls), data)
                      pushed == [pre.fh EXCEPT !.decoded_frames = Append(@, decoded.val)]
                  IN  IF ~decoded.ok
                      THEN [fh |-> pre.fh, calls |-> Append(pre.calls, data), res |-> decoded]
                      ELSE [fh |-> pushed, calls |-> Append(pre.calls, data),
                            res |-> get_decoded(pushed, index)]

\* FrameHolder::decode with an index past the end clamped to the last frame
\* in place of the IndexOutOfBounds return.
RECURSIVE decode_clamped(_, _, _)
decode_clamped(fh, dec, index) ==
    IF fh.raw_frames = <<>>
    THEN [fh |-> fh, calls |-> <<>>, res |-> DErr("IndexOutOfBounds")]
    ELSE IF index >= Len(fh.raw_frames)
    THEN decode_clamped(fh, dec, Len(fh.raw_frames) - 1)
    ELSE LET pre == IF Len(fh.decoded_frames) < index
                    THEN decode_clamped(fh, dec, index - 1)
                    ELSE [fh |-> fh, calls |-> <<>>, res |-> DOk(None)]
         IN  IF ~pre.res.ok
             THEN pre
             ELSE IF index < Len(pre.fh.decoded_frames)
             THEN [pre EXCEPT !.res = get_decoded(pre.fh, index)]
             ELSE LET data == pre.fh.raw_frames[index + 1]
                      decoded == ImageDecoder_decode(dec, Len(pre.calls), data)
                      pushed == [pre.fh EXCEPT !.decoded_frames = Append(@, decoded.val)]
                  IN  IF ~decoded.ok
                      THEN [fh |-> pre.fh, calls |-> Append(pre.calls, data), res |-> decoded]
                      ELSE [fh |-> pushed, calls |-> Append(pre.calls, data),
                            res |-> get_decoded(pushed, index)]

\* FrameHolder::decode that throws the memo away when the decoder fails.
RECURSIVE decode_clears_on_error(_, _, _)
decode_clears_on_error(fh, dec, index) ==
    IF index >= Len(fh.raw_frames)
    THEN [fh |-> fh, calls |-> <<>>, res |-> DErr("IndexOutOfBounds")]
    ELSE LET pre == IF Len(fh.decoded_frames) < index
                    THEN decode_clears_on_error(fh, dec, index - 1)
                    ELSE [fh |-> fh, calls |-> <<>>, res |-> DOk(None)]
         IN  IF ~pre.res.ok
             THEN pre
             ELSE IF index < Len(pre.fh.decoded_frames)
             THEN [pre EXCEPT !.res = get_decoded(pre.fh, index)]
             ELSE LET data == pre.fh.raw_frames[index + 1]
                      decoded == ImageDecoder_decode(dec, Len(pre.calls), data)
                      pushed == [pre.fh EXCEPT !.decoded_frames = Append(@, decoded.val)]
                      cleared == [pre.fh EXCEPT !.decoded_frames = <<>>]
                  IN  IF ~decoded.ok
                      THEN [fh |-> cleared, calls |-> Append(pre.calls, data), res |-> decoded]
                      ELSE [fh |-> pushed, calls |-> Append(pre.calls, data),
                            res |-> get_decoded(pushed, index)]

\* FrameHolder::decode. The result is the holder afterwards, the frames the
\* decoder was called on, in order, and the call's result.
RECURSIVE decode(_, _, _)
decode(fh, dec, index) ==
    IF index >= Len(fh.raw_frames)
    THEN [fh |-> fh, calls |-> <<>>, res |-> DErr("IndexOutOfBounds")]
    ELSE LET pre == IF Len(fh.decoded_frames) < index
                    THEN decode(fh, dec, index - 1)
                    ELSE [fh |-> fh, calls |-> <<>>, res |-> DOk(None)]
         IN  IF ~pre.res.ok
             THEN pre
             ELSE IF index < Len(pre.fh.decoded_frames)
             THEN [pre EXCEPT !.res = get_decoded(pre.fh, index)]
             ELSE LET data == pre.fh.raw_frames[index + 1]
                      decoded == ImageDecoder_decode(dec, Len(pre.calls), data)
                      pushed == [pre.fh EXCEPT !.decoded_frames = Append(@, decoded.val)]
                  IN  IF ~decoded.ok
                      THEN [fh |-> pre.fh, calls |-> Append(pre.calls, data), res |-> decoded]
                      ELSE [fh |-> pushed, calls |-> Append(pre.calls, data),
                            res |-> get_decoded(pushed, index)]

\* ------------------------------------------------------------ session_loop
\* The actor handled no event in the last step.
NoEvent ==
    [type |-> "none", at |-> 0, pre |-> None, frame |-> None, rid |-> 0,
     idx |-> 0, stale |-> FALSE, calls |-> <<>>, resp |-> None,
     after_old |-> FALSE, probe |-> None]

\* An event of the actor, as the history variable ev records it.
Event(type, pre) ==
    [type |-> type, at |-> now, pre |-> pre, frame |-> None, rid |-> 0,
     idx |-> 0, stale |-> FALSE, calls |-> <<>>, resp |-> None,
     after_old |-> FALSE, probe |-> None]

\* decode_branch with the staleness check off by one (>= for >).
decode_branch_ge(fh, config, dec, buf_index, t) ==
    IF elapsed(fh, t) >= config.frame_lifetime
    THEN [fh |-> drain(fh, t), stale |-> TRUE, calls |-> <<>>, resp |-> OldFrame]
    ELSE LET f == decode(fh, dec, buf_index)
         IN  [fh |-> f.fh, stale |-> FALSE, calls |-> f.calls,
              resp |-> IF f.res.ok
                       THEN FrameResponse(f.res.val, get_ts(f.fh))
                       ELSE DecodingError(f.res.err)]

\* decode_branch that looks at the index and the memo before the age.
decode_branch_index_first(fh, config, dec, buf_index, t) ==
    IF buf_index >= raw_len(fh) \/ buf_index < Len(fh.decoded_frames)
    THEN LET f == decode(fh, dec, buf_index)
         IN  [fh |-> f.fh, stale |-> FALSE, calls |-> f.calls,
              resp |-> IF f.res.ok
                       THEN FrameResponse(f.res.val, get_ts(f.fh))
                       ELSE DecodingError(f.res.err)]
    ELSE IF elapsed(fh, t) > config.frame_lifetime
    THEN [fh |-> drain(fh, t), stale |-> TRUE, calls |-> <<>>, resp |-> OldFrame]
    ELSE LET f == decode(fh, dec, buf_index)
         IN  [fh |-> f.fh, stale |-> FALSE, calls |-> f.calls,
              resp |-> IF f.res.ok
                       THEN FrameResponse(f.res.val, get_ts(f.fh))
                       ELSE DecodingError(f.res.err)]

\* The decode branch of select!, from the staleness check to the response.
decode_branch(fh, config, dec, buf_index, t) ==
    IF elapsed(fh, t) > config.frame_lifetime
    THEN [fh |-> drain(fh, t), stale |-> TRUE, calls |-> <<>>, resp |-> OldFrame]
    ELSE LET f == decode(fh, dec, buf_index)
         IN  [fh |-> f.fh, stale |-> FALSE, calls |-> f.calls,
              resp |-> IF f.res.ok
                       THEN FrameResponse(f.res.val, get_ts(f.fh))
                       ELSE DecodingError(f.res.err)]

\* frame_branch with the cap check off by one (> for >=).
frame_branch_gt(fh, config, f, t) ==
    IF f.key
    THEN set_iframe(fh, f, t)
    ELSE IF raw_len(fh) > config.buf_size
    THEN fh
    ELSE add_image(fh, f)

\* The CodecItem::VideoFrame arm of the packet branch.
frame_branch(fh, config, f, t) ==
    IF f.key
    THEN set_iframe(fh, f, t)
    ELSE IF raw_len(fh) >= config.buf_size
    THEN fh
    ELSE add_image(fh, f)

\* How often the decoder was called on frame f in one decode request, and how
\* often it returned an image for it.
Times(calls, f) == Cardinality({k \in 1..Len(calls) : calls[k] = f})
OkTimes(calls, dec, f) ==
    Cardinality({k \in 1..Len(calls) : calls[k] = f /\ k /= dec.fail_at})

\* No call returned in the last step.
NoReturn == [op |-> "none", rid |-> 0, value |-> None, at_drop |-> "none"]

Init ==
    /\ cfg \in [buf_size : 0..MaxBuf, frame_lifetime : {FrameLifetime}]
    /\ now = 0
    /\ frame_holder = FrameHolder_new(0)
    /\ actor = "bootstrap"
    /\ manager = "alive"
    /\ subscriber_q = <<>>
    /\ data_req_q = <<>>
    /\ owner = "idle"
    /\ owner_reply = None
    /\ instances = 0
    /\ pc = [c \in Calls |-> "new"]
    /\ call = [c \in Calls |-> None]
    /\ reply = [c \in Calls |-> None]
    /\ ret = NoReturn
    /\ nframes = 0
    /\ nreq = 0
    /\ ev = NoEvent
    /\ ninv = <<>>
    /\ after_old = 0
    /\ probe = None
    /\ at_drop = [c \in Calls |-> "none"]
    /\ avcc_data = <<>>
    /\ buf = <<>>
    /\ result = None
    /\ prev = None
    /\ NoChain
    /\ NoLoop

\* The Frame Cache with its history, the two channels, the callers.
cacheVars == <<frame_holder, ninv, after_old, probe>>
queueVars == <<subscriber_q, data_req_q>>
ownerVars == <<owner, owner_reply, instances>>
callerVars == <<pc, call, reply, nreq, at_drop>>

\* Time passes.
Tick ==
    /\ now < MaxTime
    /\ now' = now + 1
    /\ ev' = NoEvent
    /\ ret' = NoReturn
    /\ UNCHANGED <<decoderVars, chainVars, loopVars, cfg, actor, manager, nframes>>
    /\ UNCHANGED <<cacheVars, queueVars, ownerVars, callerVars>>

\* start_session succeeds: the actor creates the decode-request channel and
\* enters the loop.
BootstrapOk ==
    /\ actor = "bootstrap"
    /\ actor' = "serving"
    /\ ev' = Event("boot", frame_holder)
    /\ ret' = NoReturn
    /\ UNCHANGED <<decoderVars, chainVars, loopVars, cfg, now, manager, nframes>>
    /\ UNCHANGED <<cacheVars, queueVars, ownerVars, callerVars>>

\* start_session fails: expect() panics, the task ends and drops its receiver
\* with the one-shot senders queued in it.
BootstrapFail ==
    /\ actor = "bootstrap"
    /\ actor' = "ended"
    /\ subscriber_q' = <<>>
    /\ ev' = Event("panic", frame_holder)
    /\ ret' = NoReturn
    /\ UNCHANGED <<decoderVars, chainVars, loopVars, cfg, now, manager, nframes, data_req_q>>
    /\ UNCHANGED <<cacheVars, ownerVars, callerVars>>

\* The packet branch on a key frame or a delta frame.
IngestFrame(key) ==
    /\ actor = "serving"
    /\ nframes < MaxFrames
    /\ LET f == Frame(key, nframes + 1)
           fh == frame_branch(frame_holder, cfg, f, now)
       IN  /\ frame_holder' = fh
           /\ nframes' = nframes + 1
           /\ ev' = [Event(IF key THEN "key" ELSE "delta", frame_holder) EXCEPT !.frame = f]
           /\ ninv' = IF key THEN <<[n |-> 0, ok |-> 0]>>
                      ELSE IF raw_len(fh) > raw_len(frame_holder)
                      THEN Append(ninv, [n |-> 0, ok |-> 0])
                      ELSE ninv
           /\ after_old' = IF key THEN 0 ELSE after_old
           /\ probe' = IF key THEN None
                       ELSE IF probe = None THEN None
                       ELSE [probe EXCEPT !.arrived = TRUE]
    /\ ret' = NoReturn
    /\ UNCHANGED <<decoderVars, chainVars, loopVars, cfg, now, actor, manager>>
    /\ UNCHANGED <<queueVars, ownerVars, callerVars>>

\* SessionInstance::new(data_req_tx.clone()): a handle on the decode-request queue.
SessionInstance_new == [kind |-> "Instance", data_req_tx |-> "data_req_q"]

\* A registration branch that declines (sends None) while the cache is empty.
HandleRegistration_declines ==
    /\ actor = "serving"
    /\ subscriber_q /= <<>>
    /\ owner_reply' = IF is_empty(frame_holder)
                      THEN [kind |-> "Declined"]
                      ELSE SessionInstance_new
    /\ ev' = Event("reg", frame_holder)
    /\ subscriber_q' = Tail(subscriber_q)
    /\ ret' = NoReturn
    /\ UNCHANGED <<decoderVars, chainVars, loopVars, cfg, now, actor, manager, nframes, data_req_q, owner, instances>>
    /\ UNCHANGED <<cacheVars, callerVars>>

\* The registration branch: answer with a SessionInstance on the data channel.
HandleRegistration ==
    /\ actor = "serving"
    /\ subscriber_q /= <<>>
    /\ owner_reply' = SessionInstance_new
    /\ ev' = Event("reg", frame_holder)
    /\ subscriber_q' = Tail(subscriber_q)
    /\ ret' = NoReturn
    /\ UNCHANGED <<decoderVars, chainVars, loopVars, cfg, now, actor, manager, nframes, data_req_q, owner, instances>>
    /\ UNCHANGED <<cacheVars, callerVars>>

\* A decode branch that unwraps the result of FrameHolder::decode: the task
\* panics on a decode error, after it sent the error.
HandleDecode_unwraps ==
    /\ actor = "serving"
    /\ data_req_q /= <<>>
    /\ ~is_empty(frame_holder)
    /\ \E fail_at \in 0..Len(frame_holder.raw_frames), err \in DecoderFailures :
         LET req == Head(data_req_q)
             dec == [fail_at |-> fail_at, err |-> err]
             out == decode_branch(frame_holder, cfg, dec, req.idx, now)
             tracked == req.ao /= 0 /\ req.ao = after_old
         IN  /\ frame_holder' = out.fh
             /\ reply' = [reply EXCEPT ![req.rid] = out.resp]
             /\ ev' = [Event("req", frame_holder) EXCEPT
                         !.rid = req.rid, !.idx = req.idx,
                         !.stale = out.stale, !.calls = out.calls,
                         !.resp = out.resp, !.after_old = tracked, !.probe = probe]
             /\ ninv' = IF out.stale THEN <<>>
                        ELSE [i \in 1..Len(ninv) |->
                                [n |-> ninv[i].n
                                         + Times(out.calls, frame_holder.raw_frames[i]),
                                 ok |-> ninv[i].ok
                                         + OkTimes(out.calls, dec, frame_holder.raw_frames[i])]]
             /\ after_old' = IF out.stale THEN req.rid
                             ELSE IF tracked THEN 0 ELSE after_old
             /\ probe' = IF out.stale THEN None
                         ELSE IF out.resp = DecodingError("IndexOutOfBounds")
                                 /\ req.idx = raw_len(frame_holder)
                         THEN [n |-> req.idx, arrived |-> FALSE]
                         ELSE IF probe /= None /\ probe.n = req.idx THEN None
                         ELSE probe
             /\ actor' = IF out.resp.kind = "DecodingError" THEN "ended" ELSE actor
    /\ data_req_q' = Tail(data_req_q)
    /\ ret' = NoReturn
    /\ UNCHANGED <<decoderVars, chainVars, loopVars, cfg, now, manager, nframes, subscriber_q, pc, call, nreq, at_drop>>
    /\ UNCHANGED ownerVars

\* A decode branch that sends the response to the call that has waited
\* longest (the lowest number) in place of the request's own channel.
HandleDecode_to_oldest ==
    /\ actor = "serving"
    /\ data_req_q /= <<>>
    /\ ~is_empty(frame_holder)
    /\ \E fail_at \in 0..Len(frame_holder.raw_frames), err \in DecoderFailures :
         LET req == Head(data_req_q)
             dec == [fail_at |-> fail_at, err |-> err]
             out == decode_branch(frame_holder, cfg, dec, req.idx, now)
             tracked == req.ao /= 0 /\ req.ao = after_old
         IN  /\ frame_holder' = out.fh
             /\ reply' = LET waiting == {c \in DOMAIN pc : pc[c] = "img_wait" /\ reply[c] = None}
                             oldest == CHOOSE c \in waiting : \A d \in waiting : c <= d
                         IN  [reply EXCEPT ![oldest] = out.resp]
             /\ ev' = [Event("req", frame_holder) EXCEPT
                         !.rid = req.rid, !.idx = req.idx,
                         !.stale = out.stale, !.calls = out.calls,
                         !.resp = out.resp, !.after_old = tracked, !.probe = probe]
             /\ ninv' = IF out.stale THEN <<>>
                        ELSE [i \in 1..Len(ninv) |->
                                [n |-> ninv[i].n
                                         + Times(out.calls, frame_holder.raw_frames[i]),
                                 ok |-> ninv[i].ok
                                         + OkTimes(out.calls, dec, frame_holder.raw_frames[i])]]
             /\ after_old' = IF out.stale THEN req.rid
                             ELSE IF tracked THEN 0 ELSE after_old
             /\ probe' = IF out.stale THEN None
                         ELSE IF out.resp = DecodingError("IndexOutOfBounds")
                                 /\ req.idx = raw_len(frame_holder)
                         THEN [n |-> req.idx, arrived |-> FALSE]
                         ELSE IF probe /= None /\ probe.n = req.idx THEN None
                         ELSE probe
    /\ data_req_q' = Tail(data_req_q)
    /\ ret' = NoReturn
    /\ UNCHANGED <<decoderVars, chainVars, loopVars, cfg, now, actor, manager, nframes, subscriber_q, pc, call, nreq, at_drop>>
    /\ UNCHANGED ownerVars

\* The decode branch without its precondition on the cache.
HandleDecode_unguarded ==
    /\ actor = "serving"
    /\ data_req_q /= <<>>
    /\ \E fail_at \in 0..Len(frame_holder.raw_frames), err \in DecoderFailures :
         LET req == Head(data_req_q)
             dec == [fail_at |-> fail_at, err |-> err]
             out == decode_branch(frame_holder, cfg, dec, req.idx, now)
             tracked == req.ao /= 0 /\ req.ao = after_old
         IN  /\ frame_holder' = out.fh
             /\ reply' = [reply EXCEPT ![req.rid] = out.resp]
             /\ ev' = [Event("req", frame_holder) EXCEPT
                         !.rid = req.rid, !.idx = req.idx,
                         !.stale = out.stale, !.calls = out.calls,
                         !.resp = out.resp, !.after_old = tracked, !.probe = probe]
             /\ ninv' = IF out.stale THEN <<>>
                        ELSE [i \in 1..Len(ninv) |->
                                [n |-> ninv[i].n
                                         + Times(out.calls, frame_holder.raw_frames[i]),
                                 ok |-> ninv[i].ok
                                         + OkTimes(out.calls, dec, frame_holder.raw_frames[i])]]
             /\ after_old' = IF out.stale THEN req.rid
                             ELSE IF tracked THEN 0 ELSE after_old
             /\ probe' = IF out.stale THEN None
                         ELSE IF out.resp = DecodingError("IndexOutOfBounds")
                                 /\ req.idx = raw_len(frame_holder)
                         THEN [n |-> req.idx, arrived |-> FALSE]
                         ELSE IF probe /= None /\ probe.n = req.idx THEN None
                         ELSE probe
    /\ data_req_q' = Tail(data_req_q)
    /\ ret' = NoReturn
    /\ UNCHANGED <<decoderVars, chainVars, loopVars, cfg, now, actor, manager, nframes, subscriber_q, pc, call, nreq, at_drop>>
    /\ UNCHANGED ownerVars

\* The decode branch: enabled only while the holder is not empty.
HandleDecode ==
    /\ actor = "serving"
    /\ data_req_q /= <<>>
    /\ ~is_empty(frame_holder)
    /\ \E fail_at \in 0..Len(frame_holder.raw_frames), err \in DecoderFailures :
         LET req == Head(data_req_q)
             dec == [fail_at |-> fail_at, err |-> err]
             out == decode_branch(frame_holder, cfg, dec, req.idx, now)
             tracked == req.ao /= 0 /\ req.ao = after_old
         IN  /\ frame_holder' = out.fh
             /\ reply' = [reply EXCEPT ![req.rid] = out.resp]
             /\ ev' = [Event("req", frame_holder) EXCEPT
                         !.rid = req.rid, !.idx = req.idx,
                         !.stale = out.stale, !.calls = out.calls,
                         !.resp = out.resp, !.after_old = tracked, !.probe = probe]
             /\ ninv' = IF out.stale THEN <<>>
                        ELSE [i \in 1..Len(ninv) |->
                                [n |-> ninv[i].n
                                         + Times(out.calls, frame_holder.raw_frames[i]),
                                 ok |-> ninv[i].ok
                                         + OkTimes(out.calls, dec, frame_holder.raw_frames[i])]]
             /\ after_old' = IF out.stale THEN req.rid
                             ELSE IF tracked THEN 0 ELSE after_old
             /\ probe' = IF out.stale THEN None
                         ELSE IF out.resp = DecodingError("IndexOutOfBounds")
                                 /\ req.idx = raw_len(frame_holder)
                         THEN [n |-> req.idx, arrived |-> FALSE]
                         ELSE IF probe /= None /\ probe.n = req.idx THEN None
                         ELSE probe
    /\ data_req_q' = Tail(data_req_q)
    /\ ret' = NoReturn
    /\ UNCHANGED <<decoderVars, chainVars, loopVars, cfg, now, actor, manager, nframes, subscriber_q, pc, call, nreq, at_drop>>
    /\ UNCHANGED ownerVars

\* ------------------------------------------------------------- the callers
\* Call c of request_image returns value.
Return(c, value) ==
    [op |-> "request_image", rid |-> c, value |-> value, at_drop |-> at_drop[c]]

\* A call of request_instance returns value.
ReturnInstance(value) ==
    [op |-> "request_instance", rid |-> 0, value |-> value, at_drop |-> "none"]

\* SessionInstanceManager::request_instance is called. It borrows the manager
\* mutably: one call at a time, and no drop of the manager during a call. The
\* owner asks until it holds a SessionInstance, which the calls then share.
RequestInstance ==
    /\ manager = "alive"
    /\ owner = "idle"
    /\ instances = 0
    /\ owner' = "send"
    /\ ev' = NoEvent
    /\ ret' = NoReturn
    /\ UNCHANGED <<decoderVars, chainVars, loopVars, cfg, now, actor, manager, nframes, owner_reply, instances>>
    /\ UNCHANGED <<cacheVars, queueVars, callerVars>>

\* subscriber_request_tx.send(inp).await
SendRegistration ==
    /\ owner = "send"
    /\ IF actor = "ended"
       THEN /\ owner' = "idle"
            /\ ret' = ReturnInstance(BrokenPipeline)
            /\ UNCHANGED subscriber_q
       ELSE /\ Len(subscriber_q) < SubscriberQueueCap
            /\ subscriber_q' = Append(subscriber_q, "owner")
            /\ owner' = "wait"
            /\ ret' = NoReturn
    /\ ev' = NoEvent
    /\ UNCHANGED <<decoderVars, chainVars, loopVars, cfg, now, actor, manager, nframes, data_req_q, owner_reply, instances>>
    /\ UNCHANGED <<cacheVars, callerVars>>

\* out.await, then ok_or(UnableToSubscribe)
AwaitInstance ==
    /\ owner = "wait"
    /\ IF owner_reply /= None
       THEN /\ instances' = IF owner_reply.kind = "Instance" THEN instances + 1 ELSE instances
            /\ ret' = ReturnInstance(IF owner_reply.kind = "Instance"
                                     THEN owner_reply
                                     ELSE [kind |-> "UnableToSubscribe"])
            /\ owner_reply' = None
       ELSE /\ actor = "ended"
            /\ ret' = ReturnInstance(ServerDropped)
            /\ UNCHANGED <<owner_reply, instances>>
    /\ owner' = "idle"
    /\ ev' = NoEvent
    /\ UNCHANGED <<decoderVars, chainVars, loopVars, cfg, now, actor, manager, nframes>>
    /\ UNCHANGED <<cacheVars, queueVars, callerVars>>

\* SessionInstance::request_image is called with FrameRequest::new(idx): the
\* one-shot channel is made and attached.
RequestImage(c, idx) ==
    /\ instances > 0
    /\ c = nreq + 1
    /\ pc[c] = "new"
    /\ nreq' = nreq + 1
    /\ pc' = [pc EXCEPT ![c] = "img_send"]
    /\ call' = [call EXCEPT ![c] = [rid |-> c, idx |-> idx]]
    /\ ev' = NoEvent
    /\ ret' = NoReturn
    /\ UNCHANGED <<decoderVars, chainVars, loopVars, cfg, now, actor, manager, nframes, reply, at_drop>>
    /\ UNCHANGED <<cacheVars, queueVars, ownerVars>>

\* A send that also resets the anchor timestamp of the cache.
SendRequest_resets_ts(c) ==
    /\ pc[c] = "img_send"
    /\ IF actor = "ended"
       THEN /\ pc' = [pc EXCEPT ![c] = "done"]
            /\ ret' = Return(c, BrokenPipeline)
            /\ call' = [call EXCEPT ![c] = None]
            /\ at_drop' = [at_drop EXCEPT ![c] = "none"]
            /\ UNCHANGED data_req_q
       ELSE /\ Len(data_req_q) < DataQueueCap
            /\ data_req_q' = Append(data_req_q,
                                    [rid |-> call[c].rid, idx |-> call[c].idx,
                                     ao |-> after_old])
            /\ pc' = [pc EXCEPT ![c] = "img_wait"]
            /\ ret' = NoReturn
            /\ UNCHANGED <<call, at_drop>>
    /\ frame_holder' = [frame_holder EXCEPT !.ts = now]
    /\ ev' = NoEvent
    /\ UNCHANGED <<decoderVars, chainVars, loopVars, cfg, now, actor, manager, nframes, subscriber_q, reply, nreq>>
    /\ UNCHANGED <<ninv, after_old, probe>>
    /\ UNCHANGED ownerVars

\* A send with the capacity check off by one (<= for <).
SendRequest_le(c) ==
    /\ pc[c] = "img_send"
    /\ IF actor = "ended"
       THEN /\ pc' = [pc EXCEPT ![c] = "done"]
            /\ ret' = Return(c, BrokenPipeline)
            /\ call' = [call EXCEPT ![c] = None]
            /\ at_drop' = [at_drop EXCEPT ![c] = "none"]
            /\ UNCHANGED data_req_q
       ELSE /\ Len(data_req_q) <= DataQueueCap
            /\ data_req_q' = Append(data_req_q,
                                    [rid |-> call[c].rid, idx |-> call[c].idx,
                                     ao |-> after_old])
            /\ pc' = [pc EXCEPT ![c] = "img_wait"]
            /\ ret' = NoReturn
            /\ UNCHANGED <<call, at_drop>>
    /\ ev' = NoEvent
    /\ UNCHANGED <<decoderVars, chainVars, loopVars, cfg, now, actor, manager, nframes, subscriber_q, reply, nreq>>
    /\ UNCHANGED <<cacheVars, ownerVars>>

\* data_req_tx.send(req).await
SendRequest(c) ==
    /\ pc[c] = "img_send"
    /\ IF actor = "ended"
       THEN /\ pc' = [pc EXCEPT ![c] = "done"]
            /\ ret' = Return(c, BrokenPipeline)
            /\ call' = [call EXCEPT ![c] = None]
            /\ at_drop' = [at_drop EXCEPT ![c] = "none"]
            /\ UNCHANGED data_req_q
       ELSE /\ Len(data_req_q) < DataQueueCap
            /\ data_req_q' = Append(data_req_q,
                                    [rid |-> call[c].rid, idx |-> call[c].idx,
                                     ao |-> after_old])
            /\ pc' = [pc EXCEPT ![c] = "img_wait"]
            /\ ret' = NoReturn
            /\ UNCHANGED <<call, at_drop>>
    /\ ev' = NoEvent
    /\ UNCHANGED <<decoderVars, chainVars, loopVars, cfg, now, actor, manager, nframes, subscriber_q, reply, nreq>>
    /\ UNCHANGED <<cacheVars, ownerVars>>

\* req_rx.await with the closed one-shot channel mapped to BrokenPipeline.
AwaitResponse_broken(c) ==
    /\ pc[c] = "img_wait"
    /\ IF reply[c] /= None
       THEN /\ ret' = Return(c, reply[c])
            /\ reply' = [reply EXCEPT ![c] = None]
       ELSE /\ actor = "ended"
            /\ ret' = Return(c, BrokenPipeline)
            /\ UNCHANGED reply
    /\ pc' = [pc EXCEPT ![c] = "done"]
    /\ call' = [call EXCEPT ![c] = None]
    /\ at_drop' = [at_drop EXCEPT ![c] = "none"]
    /\ ev' = NoEvent
    /\ UNCHANGED <<decoderVars, chainVars, loopVars, cfg, now, actor, manager, nframes, nreq>>
    /\ UNCHANGED <<cacheVars, queueVars, ownerVars>>

\* req_rx.await
AwaitResponse(c) ==
    /\ pc[c] = "img_wait"
    /\ IF reply[c] /= None
       THEN /\ ret' = Return(c, reply[c])
            /\ reply' = [reply EXCEPT ![c] = None]
       ELSE /\ actor = "ended"
            /\ ret' = Return(c, ServerDropped)
            /\ UNCHANGED reply
    /\ pc' = [pc EXCEPT ![c] = "done"]
    /\ call' = [call EXCEPT ![c] = None]
    /\ at_drop' = [at_drop EXCEPT ![c] = "none"]
    /\ ev' = NoEvent
    /\ UNCHANGED <<decoderVars, chainVars, loopVars, cfg, now, actor, manager, nframes, nreq>>
    /\ UNCHANGED <<cacheVars, queueVars, ownerVars>>

\* A drop of the manager that does not abort the task.
DropManager_no_abort ==
    /\ manager = "alive"
    /\ owner = "idle"
    /\ manager' = "dropped"
    /\ at_drop' = [c \in Calls |->
                     IF pc[c] \in {"img_send", "img_wait"} /\ reply[c] = None
                     THEN pc[c] ELSE "none"]
    /\ ev' = NoEvent
    /\ ret' = NoReturn
    /\ UNCHANGED <<decoderVars, chainVars, loopVars, cfg, now, actor, nframes, pc, call, reply, nreq>>
    /\ UNCHANGED <<cacheVars, queueVars, ownerVars>>

\* impl Drop for SessionInstanceManager: abort the task. The task is dropped
\* at its await point, with both receivers and every request queued in them.
DropManager ==
    /\ manager = "alive"
    /\ owner = "idle"
    /\ manager' = "dropped"
    /\ actor' = "ended"
    /\ subscriber_q' = <<>>
    /\ data_req_q' = <<>>
    /\ at_drop' = [c \in Calls |->
                     IF pc[c] \in {"img_send", "img_wait"} /\ reply[c] = None
                     THEN pc[c] ELSE "none"]
    /\ ev' = NoEvent
    /\ ret' = NoReturn
    /\ UNCHANGED <<decoderVars, chainVars, loopVars, cfg, now, nframes, pc, call, reply, nreq>>
    /\ UNCHANGED <<cacheVars, ownerVars>>

Next ==
    \/ Tick
    \/ BootstrapOk
    \/ BootstrapFail
    \/ \E key \in BOOLEAN : IngestFrame(key)
    \/ HandleRegistration
    \/ HandleDecode
    \/ DropManager
    \/ RequestInstance
    \/ SendRegistration
    \/ AwaitInstance
    \/ \E c \in Calls, idx \in 0..MaxIdx : RequestImage(c, idx)
    \/ \E c \in Calls : SendRequest(c)
    \/ \E c \in Calls : AwaitResponse(c)

Spec == Init /\ [][Next]_vars

\* A call suspended in send or in await is woken when the channel is closed
\* or written, and the runtime then runs it.
FairSpec ==
    /\ Spec
    /\ \A c \in Calls : WF_vars(SendRequest(c)) /\ WF_vars(AwaitResponse(c))

\* The same for the task that calls request_instance.
FairCallers ==
    /\ FairSpec
    /\ WF_vars(SendRegistration)
    /\ WF_vars(AwaitInstance)

\* ------------------------------------------------- the full request queue
\* The actor serves, one SessionInstance is out, and more calls of
\* request_image are made than the decode-request queue holds. To keep the
\* number of interleavings small the calls all ask for index 0, the clock
\* stands still, one key frame arrives, the decoder works, a call reads its
\* response before the actor handles the next request, and suspended senders
\* are served in the order they arrived (the order of tokio's mpsc permits).
QCalls == 1..(DataQueueCap + Overflow)

QueueInit ==
    /\ cfg = [buf_size |-> 1, frame_lifetime |-> FrameLifetime]
    /\ now = 0
    /\ frame_holder = FrameHolder_new(0)
    /\ actor = "serving"
    /\ manager = "alive"
    /\ subscriber_q = <<>>
    /\ data_req_q = <<>>
    /\ owner = "idle"
    /\ owner_reply = None
    /\ instances = 1
    /\ pc = [c \in QCalls |-> "new"]
    /\ call = [c \in QCalls |-> None]
    /\ reply = [c \in QCalls |-> None]
    /\ ret = NoReturn
    /\ nframes = 0
    /\ nreq = 0
    /\ ev = NoEvent
    /\ ninv = <<>>
    /\ after_old = 0
    /\ probe = None
    /\ at_drop = [c \in QCalls |-> "none"]
    /\ avcc_data = <<>>
    /\ buf = <<>>
    /\ result = None
    /\ prev = None
    /\ NoChain
    /\ NoLoop

QueueSend(c) ==
    /\ \A d \in QCalls : d < c => pc[d] /= "img_send"
    /\ SendRequest(c)

QueueIngest ==
    /\ nframes = 0
    /\ IngestFrame(TRUE)

QueueHandle ==
    /\ \A c \in QCalls : reply[c] = None
    /\ HandleDecode
    /\ reply'[Head(data_req_q).rid].kind = "Ok"

QueueNext ==
    \/ \E c \in QCalls : RequestImage(c, 0)
    \/ \E c \in QCalls : QueueSend(c)
    \/ QueueIngest
    \/ QueueHandle
    \/ \E c \in QCalls : AwaitResponse(c)

QueueSpec == QueueInit /\ [][QueueNext]_vars

\* ------------------------------------------------------------ AVCCDecoder
\* Sequences of bytes are sequences of numbers in 0..255.
StartCode == <<0, 0, 0, 1>>

\* u32::from_be_bytes and its inverse, u32::to_be_bytes.
from_be_bytes(b0, b1, b2, b3) == b0 * 16777216 + b1 * 65536 + b2 * 256 + b3
to_be_bytes(n) ==
    <<(n \div 16777216) % 256, (n \div 65536) % 256, (n \div 256) % 256, n % 256>>

\* The while loop of AVCCDecoder::decode that leaves the length prefix in the
\* output in place of the start code.
RECURSIVE avcc_loop_keeps_prefix(_, _, _)
avcc_loop_keeps_prefix(input, index, out) ==
    IF ~(index < Len(input))
    THEN [res |-> DOk(out), buf |-> out]
    ELSE IF index + 4 > Len(input)
    THEN [res |-> DErr("FieldOutOfBounds"), buf |-> out]
    ELSE LET nal_size == from_be_bytes(input[index + 1], input[index + 2],
                                       input[index + 3], input[index + 4])
             at == index + 4
         IN  IF at + nal_size > Len(input)
             THEN [res |-> DErr("NalOutOfBounds"), buf |-> out]
             ELSE avcc_loop_keeps_prefix(input, at + nal_size,
                            out \o SubSeq(input, index + 1, at + nal_size))

\* The while loop of AVCCDecoder::decode that emits no start code for a unit
\* of no bytes.
RECURSIVE avcc_loop_skips_empty(_, _, _)
avcc_loop_skips_empty(input, index, out) ==
    IF ~(index < Len(input))
    THEN [res |-> DOk(out), buf |-> out]
    ELSE IF index + 4 > Len(input)
    THEN [res |-> DErr("FieldOutOfBounds"), buf |-> out]
    ELSE LET nal_size == from_be_bytes(input[index + 1], input[index + 2],
                                       input[index + 3], input[index + 4])
             at == index + 4
         IN  IF at + nal_size > Len(input)
             THEN [res |-> DErr("NalOutOfBounds"), buf |-> out]
             ELSE IF nal_size = 0
             THEN avcc_loop_skips_empty(input, at, out)
             ELSE avcc_loop_skips_empty(input, at + nal_size,
                            out \o StartCode \o SubSeq(input, at + 1, at + nal_size))

\* The while loop of AVCCDecoder::decode that returns what it has built when
\* the input ends early, in place of the error.
RECURSIVE avcc_loop_lenient(_, _, _)
avcc_loop_lenient(input, index, out) ==
    IF ~(index < Len(input))
    THEN [res |-> DOk(out), buf |-> out]
    ELSE IF index + 4 > Len(input)
    THEN [res |-> DOk(out), buf |-> out]
    ELSE LET nal_size == from_be_bytes(input[index + 1], input[index + 2],
                                       input[index + 3], input[index + 4])
             at == index + 4
         IN  IF at + nal_size > Len(input)
             THEN [res |-> DOk(out), buf |-> out]
             ELSE avcc_loop_lenient(input, at + nal_size,
                            out \o StartCode \o SubSeq(input, at + 1, at + nal_size))

\* The while loop of AVCCDecoder::decode, from byte index on, with self.buf = out.
\* The result is the call's result and self.buf as the call leaves it.
RECURSIVE avcc_loop(_, _, _)
avcc_loop(input, index, out) ==
    IF ~(index < Len(input))
    THEN [res |-> DOk(out), buf |-> out]
    ELSE IF index + 4 > Len(input)
    THEN [res |-> DErr("FieldOutOfBounds"), buf |-> out]
    ELSE LET nal_size == from_be_bytes(input[index + 1], input[index + 2],
                                       input[index + 3], input[index + 4])
             at == index + 4
         IN  IF at + nal_size > Len(input)
             THEN [res |-> DErr("NalOutOfBounds"), buf |-> out]
             ELSE avcc_loop(input, at + nal_size,
                            out \o StartCode \o SubSeq(input, at + 1, at + nal_size))

\* impl ImageDecoder for AVCCDecoder: self.buf.clear(), then the loop.
AVCCDecoder_decode(input) == avcc_loop(input, 0, <<>>)

\* The inputs: the units, the sequences of units, their length-prefixed form.
Units == UNION {[1..n -> PayloadBytes] : n \in 0..MaxUnitLen}
RECURSIVE Encode(_)
Encode(us) ==
    IF us = <<>> THEN <<>>
    ELSE to_be_bytes(Len(Head(us))) \o Head(us) \o Encode(Tail(us))
\* The sequences of units whose length-prefixed form has at most room bytes.
RECURSIVE UnitSeqsWithin(_)
UnitSeqsWithin(room) ==
    {<<>>} \cup
    UNION {{<<u>> \o rest : rest \in UnitSeqsWithin(room - 4 - Len(u))} :
             u \in {v \in Units : 4 + Len(v) <= room}}
UnitSeqs == UnitSeqsWithin(MaxLen)
WellFormedInputs == {Encode(us) : us \in UnitSeqs}
\* A well-formed input cut short, in a length prefix or in a unit.
Truncated ==
    UNION {{SubSeq(d, 1, n) : n \in 0..Len(d)} : d \in WellFormedInputs} \ WellFormedInputs
\* A length prefix that declares far more bytes than any input has.
HugePrefix == <<127, 255, 255, 0>>
\* An input whose last length prefix is huge: alone, or after one well-formed
\* unit, with or without bytes after it.
Overdeclared ==
    {pre \o HugePrefix \o u :
       pre \in {<<>>} \cup {Encode(<<v>>) : v \in Units},
       u \in {v \in Units : Len(v) <= 1}}
Inputs == WellFormedInputs \cup Truncated \cup Overdeclared

\* A new AVCCDecoder is given an input; the session actor is not started.
ReformatInit ==
    /\ avcc_data \in Inputs
    /\ buf = <<>>
    /\ result = None
    /\ prev = None
    /\ NoChain
    /\ NoLoop
    /\ cfg = [buf_size |-> 0, frame_lifetime |-> FrameLifetime]
    /\ now = 0
    /\ frame_holder = FrameHolder_new(0)
    /\ actor = "bootstrap"
    /\ manager = "alive"
    /\ subscriber_q = <<>>
    /\ data_req_q = <<>>
    /\ owner = "idle"
    /\ owner_reply = None
    /\ instances = 0
    /\ pc = [c \in Calls |-> "new"]
    /\ call = [c \in Calls |-> None]
    /\ reply = [c \in Calls |-> None]
    /\ ret = NoReturn
    /\ nframes = 0
    /\ nreq = 0
    /\ ev = NoEvent
    /\ ninv = <<>>
    /\ after_old = 0
    /\ probe = None
    /\ at_drop = [c \in Calls |-> "none"]

\* decoder.decode(data) is called.
Reformat ==
    /\ result = None
    /\ LET r == AVCCDecoder_decode(avcc_data)
       IN  /\ result' = r.res
           /\ buf' = r.buf
    /\ UNCHANGED <<avcc_data, prev, actorVars, chainVars, loopVars>>

\* The same decoder is given a second input.
NextInput ==
    /\ result /= None
    /\ prev = None
    /\ NoChain
    /\ NoLoop
    /\ \E d \in Inputs : avcc_data' = d
    /\ prev' = [input |-> avcc_data, result |-> result]
    /\ result' = None
    /\ UNCHANGED <<buf, actorVars, chainVars, loopVars>>

ReformatNext == Reformat \/ NextInput

ReformatSpec == ReformatInit /\ [][ReformatNext]_vars

\* ------------------------------------------------------------ ChainedDecoder
\* Nesting depth of the chains that are built.
MaxDepth == 2

\* The two stages that implement ImageDecoder and Chain: 1 is the
\* reformatter, 2 the H.264 stage. A stage either decodes what it is given or
\* fails on it with its own error.
Stages == {[stage |-> i, fails |-> f] : i \in {1, 2}, f \in BOOLEAN}
StageError(i) == IF i = 1 THEN "NalOutOfBounds" ELSE "DecodeFail"
IsStage(d) == "stage" \in DOMAIN d

\* ImageDecoder::decode of a stage: its output is its input with the stage's
\* mark after it. The stage's call is recorded with its input.
Stage_decode(d, data) ==
    [res   |-> IF d.fails THEN DErr(StageError(d.stage))
               ELSE DOk(Append(data, d.stage)),
     calls |-> <<[stage |-> d.stage, data |-> data]>>]

\* Chain::chain(self, other).
chain(self, other) == [a |-> self, b |-> other]

\* ChainedDecoder::decode that still runs b, on the data it was given, when a
\* has failed.
RECURSIVE ChainedDecoder_decode_runs_b(_, _)
ChainedDecoder_decode_runs_b(d, data) ==
    IF IsStage(d) THEN Stage_decode(d, data)
    ELSE LET ra == ChainedDecoder_decode_runs_b(d.a, data)
         IN  IF ~ra.res.ok
             THEN [res |-> ra.res,
                   calls |-> ra.calls \o ChainedDecoder_decode_runs_b(d.b, data).calls]
             ELSE LET rb == ChainedDecoder_decode_runs_b(d.b, ra.res.val)
                  IN  [res |-> rb.res, calls |-> ra.calls \o rb.calls]

\* ChainedDecoder::decode: self.b.decode(self.a.decode(data)?), where a and b
\* are boxed ImageDecoders, stages or ChainedDecoders.
RECURSIVE ChainedDecoder_decode(_, _)
ChainedDecoder_decode(d, data) ==
    IF IsStage(d) THEN Stage_decode(d, data)
    ELSE LET ra == ChainedDecoder_decode(d.a, data)
         IN  IF ~ra.res.ok
             THEN ra
             ELSE LET rb == ChainedDecoder_decode(d.b, ra.res.val)
                  IN  [res |-> rb.res, calls |-> ra.calls \o rb.calls]

\* Number of ChainedDecoders on the longest path of a decoder.
RECURSIVE Depth(_)
Depth(d) ==
    IF IsStage(d) THEN 0
    ELSE 1 + (IF Depth(d.a) >= Depth(d.b) THEN Depth(d.a) ELSE Depth(d.b))

\* The decoders of nesting depth n or less.
RECURSIVE DecodersOfDepth(_)
DecodersOfDepth(n) ==
    IF n = 0 THEN Stages
    ELSE LET below == DecodersOfDepth(n - 1)
         IN  below \cup {chain(x, y) : x \in below, y \in below}

\* A stage is constructed and given one byte of data.
ChainInit ==
    /\ chained \in Stages
    /\ chain_data \in {<<x>> : x \in PayloadBytes}
    /\ chain_result = None
    /\ chain_calls = <<>>
    /\ NoLoop
    /\ avcc_data = <<>>
    /\ buf = <<>>
    /\ result = None
    /\ prev = None
    /\ cfg = [buf_size |-> 0, frame_lifetime |-> FrameLifetime]
    /\ now = 0
    /\ frame_holder = FrameHolder_new(0)
    /\ actor = "bootstrap"
    /\ manager = "alive"
    /\ subscriber_q = <<>>
    /\ data_req_q = <<>>
    /\ owner = "idle"
    /\ owner_reply = None
    /\ instances = 0
    /\ pc = [c \in Calls |-> "new"]
    /\ call = [c \in Calls |-> None]
    /\ reply = [c \in Calls |-> None]
    /\ ret = NoReturn
    /\ nframes = 0
    /\ nreq = 0
    /\ ev = NoEvent
    /\ ninv = <<>>
    /\ after_old = 0
    /\ probe = None
    /\ at_drop = [c \in Calls |-> "none"]

\* decoder.chain(other): the decoder becomes the left child of a new
\* ChainedDecoder, other (a stage or itself a chain) the right child.
Chain ==
    /\ chain_result = None
    /\ Depth(chained) < MaxDepth
    /\ \E other \in DecodersOfDepth(MaxDepth - 1) :
         chained' = chain(chained, other)
    /\ UNCHANGED <<chain_data, chain_result, chain_calls, actorVars, decoderVars, loopVars>>

\* decoder.decode(data) on the decoder that was built.
ChainDecode ==
    /\ chain_result = None
    /\ LET r == ChainedDecoder_decode(chained, chain_data)
       IN  /\ chain_result' = r.res
           /\ chain_calls' = r.calls
    /\ UNCHANGED <<chained, chain_data, actorVars, decoderVars, loopVars>>

ChainNext == Chain \/ ChainDecode

ChainSpec == ChainInit /\ [][ChainNext]_vars

\* --------------------------------------------------- session_loop in steps
\* What session.next() yields besides video frames: a CodecItem that is no
\* VideoFrame, and Some(Err(e)). None (the end of the stream) is session.closed.
Control == [kind |-> "control"]
TransportError == [kind |-> "error"]
IsVideoFrame(x) == "key" \in DOMAIN x
LoopItems == {Frame(TRUE, 1), Frame(FALSE, 0), Control, TransportError}

\* An event of the loop, as ev records it: the branch that completed, and for
\* the decode branch the request's call, the response and whether
\* sender.send() delivered it.
NoLoopEvent ==
    [type |-> "none", rid |-> 0, stale |-> FALSE, resp |-> None, delivered |-> FALSE]
LoopEvent(type) == [NoLoopEvent EXCEPT !.type = type]

\* The loop is serving (the bootstrap is done), nothing has happened yet.
LoopStart(buf_size) ==
    /\ cfg = [buf_size |-> buf_size, frame_lifetime |-> FrameLifetime]
    /\ now = 0
    /\ frame_holder = FrameHolder_new(0)
    /\ actor = "serving"
    /\ manager = "alive"
    /\ subscriber_q = <<>>
    /\ data_req_q = <<>>
    /\ owner = "idle"
    /\ owner_reply = None
    /\ instances = 0
    /\ pc = [c \in Calls |-> "new"]
    /\ call = [c \in Calls |-> None]
    /\ reply = [c \in Calls |-> None]
    /\ ret = NoReturn
    /\ nframes = 0
    /\ nreq = 0
    /\ ev = NoLoopEvent
    /\ ninv = <<>>
    /\ after_old = 0
    /\ probe = None
    /\ at_drop = [c \in Calls |-> "none"]
    /\ avcc_data = <<>>
    /\ buf = <<>>
    /\ result = None
    /\ prev = None
    /\ NoChain
    /\ NoLoop

LoopInit == LoopStart(2)

\* What no step of the loop or of its callers writes.
loopFixed == <<cfg, call, ret, nframes, nreq, ninv, after_old, probe, at_drop,
               decoderVars, chainVars>>

\* Time passes.
LoopTick ==
    /\ now < MaxTime
    /\ now' = now + 1
    /\ ev' = NoLoopEvent
    /\ UNCHANGED <<frame_holder, actor, manager, subscriber_q, data_req_q, owner,
                   owner_reply, instances, pc, reply, loopVars, loopFixed>>

\* The transport has its next item ready.
Arrive(x) ==
    /\ session.item = None
    /\ ~session.closed
    /\ session' = [session EXCEPT !.item = x]
    /\ ev' = NoLoopEvent
    /\ UNCHANGED <<frame_holder, now, actor, manager, subscriber_q, data_req_q, owner,
                   owner_reply, instances, pc, reply, loop_pc, cur, packet_off,
                   loopFixed>>

\* The stream ends: from now on session.next() yields None.
EndOfStream ==
    /\ session.item = None
    /\ ~session.closed
    /\ session' = [session EXCEPT !.closed = TRUE]
    /\ ev' = NoLoopEvent
    /\ UNCHANGED <<frame_holder, now, actor, manager, subscriber_q, data_req_q, owner,
                   owner_reply, instances, pc, reply, loop_pc, cur, packet_off,
                   loopFixed>>

\* request_instance up to its await: the one-shot sender is queued.
LoopRegister ==
    /\ manager = "alive"
    /\ actor = "serving"
    /\ owner = "idle"
    /\ owner' = "reg_wait"
    /\ subscriber_q' = Append(subscriber_q, "tx")
    /\ ev' = NoLoopEvent
    /\ UNCHANGED <<frame_holder, now, actor, manager, data_req_q, owner_reply,
                   instances, pc, reply, loopVars, loopFixed>>

\* request_image up to its await: the request is queued with its one-shot
\* sender (two calls never fill the queue of 32).
LoopRequest(c, idx) ==
    /\ instances > 0
    /\ actor = "serving"
    /\ pc[c] = "new"
    /\ pc' = [pc EXCEPT ![c] = "img_wait"]
    /\ data_req_q' = Append(data_req_q, [rid |-> c, idx |-> idx])
    /\ ev' = NoLoopEvent
    /\ UNCHANGED <<frame_holder, now, actor, manager, subscriber_q, owner, owner_reply,
                   instances, reply, loopVars, loopFixed>>

\* The caller drops the future of request_image while it waits: the one-shot
\* receiver is closed, the request stays in the queue.
LoopAbandon(c) ==
    /\ pc[c] = "img_wait"
    /\ actor = "serving"
    /\ pc' = [pc EXCEPT ![c] = "gone"]
    /\ ev' = NoLoopEvent
    /\ UNCHANGED <<frame_holder, now, actor, manager, subscriber_q, data_req_q, owner,
                   owner_reply, instances, reply, loopVars, loopFixed>>

\* The manager is dropped: task_handle.abort().
LoopDrop ==
    /\ manager = "alive"
    /\ owner = "idle"
    /\ manager' = "dropped"
    /\ ev' = NoLoopEvent
    /\ UNCHANGED <<frame_holder, now, actor, subscriber_q, data_req_q, owner,
                   owner_reply, instances, pc, reply, loopVars, loopFixed>>

\* The abort takes effect where the task awaits, at select!: the task ends,
\* the queues close, the calls that wait return ServerDropped.
LoopEnd ==
    /\ manager = "dropped"
    /\ actor = "serving"
    /\ loop_pc = "select"
    /\ actor' = "ended"
    /\ subscriber_q' = <<>>
    /\ data_req_q' = <<>>
    /\ pc' = [c \in Calls |-> "new"]
    /\ owner' = "idle"
    /\ ev' = NoLoopEvent
    /\ UNCHANGED <<frame_holder, now, manager, owner_reply, instances, reply,
                   loopVars, loopFixed>>

\* sender.send(resp): if the receiver is open the response is delivered and
\* the call returns it; if it is closed the error is printed and nothing else
\* happens. Either way the call is over.
Respond(rid, resp, stale) ==
    /\ pc' = [pc EXCEPT ![rid] = "new"]
    /\ ev' = [LoopEvent("sent") EXCEPT !.rid = rid, !.stale = stale, !.resp = resp,
                                         !.delivered = pc[rid] /= "gone"]

\* The decode branch that looks first whether the requester still listens, and
\* drops the request of one that does not.
SelectDecode_skips_closed ==
    /\ actor = "serving"
    /\ loop_pc = "select"
    /\ data_req_q /= <<>>
    /\ ~is_empty(frame_holder)
    /\ IF pc[Head(data_req_q).rid] = "gone"
       THEN /\ pc' = [pc EXCEPT ![Head(data_req_q).rid] = "new"]
            /\ ev' = [LoopEvent("sent") EXCEPT !.rid = Head(data_req_q).rid]
            /\ packet_off' = FALSE
            /\ UNCHANGED <<cur, loop_pc>>
       ELSE /\ cur' = [rid |-> Head(data_req_q).rid, idx |-> Head(data_req_q).idx,
                       snap |-> frame_holder, res |-> None]
            /\ loop_pc' = "check"
            /\ ev' = LoopEvent("req")
            /\ UNCHANGED <<pc, packet_off>>
    /\ data_req_q' = Tail(data_req_q)
    /\ UNCHANGED <<frame_holder, now, actor, manager, subscriber_q, owner, owner_reply,
                   instances, reply, session, loopFixed>>

\* select! that takes the decode branch only when no other branch is ready.
SelectDecode_last ==
    /\ actor = "serving"
    /\ loop_pc = "select"
    /\ data_req_q /= <<>>
    /\ ~is_empty(frame_holder)
    /\ session.item = None
    /\ subscriber_q = <<>>
    /\ cur' = [rid |-> Head(data_req_q).rid, idx |-> Head(data_req_q).idx,
               snap |-> frame_holder, res |-> None]
    /\ data_req_q' = Tail(data_req_q)
    /\ loop_pc' = "check"
    /\ ev' = LoopEvent("req")
    /\ UNCHANGED <<frame_holder, now, actor, manager, subscriber_q, owner, owner_reply,
                   instances, pc, reply, session, packet_off, loopFixed>>

\* select! takes the decode branch: the cache is not empty and recv() yields
\* a request, whose sender is taken.
SelectDecode ==
    /\ actor = "serving"
    /\ loop_pc = "select"
    /\ data_req_q /= <<>>
    /\ ~is_empty(frame_holder)
    /\ cur' = [rid |-> Head(data_req_q).rid, idx |-> Head(data_req_q).idx,
               snap |-> frame_holder, res |-> None]
    /\ data_req_q' = Tail(data_req_q)
    /\ loop_pc' = "check"
    /\ ev' = LoopEvent("req")
    /\ UNCHANGED <<frame_holder, now, actor, manager, subscriber_q, owner, owner_reply,
                   instances, pc, reply, session, packet_off, loopFixed>>

\* The staleness check: an old cache is drained and OldFrame sent, which ends
\* the branch.
StaleCheck ==
    /\ loop_pc = "check"
    /\ IF elapsed(frame_holder, now) > cfg.frame_lifetime
       THEN /\ frame_holder' = drain(frame_holder, now)
            /\ Respond(cur.rid, OldFrame, TRUE)
            /\ loop_pc' = "select"
            /\ cur' = None
            /\ packet_off' = FALSE
       ELSE /\ loop_pc' = "decode"
            /\ ev' = NoLoopEvent
            /\ UNCHANGED <<frame_holder, pc, cur, packet_off>>
    /\ UNCHANGED <<now, actor, manager, subscriber_q, data_req_q, owner, owner_reply,
                   instances, reply, session, loopFixed>>

\* FrameHolder::decode, one decoder call at a time: the frames from the end of
\* the memo up to index are decoded in order and pushed; an index past the
\* coded frames, a decoder error, or the frame at index in the memo end it.
DecodeStep ==
    /\ loop_pc = "decode"
    /\ LET n == Len(frame_holder.decoded_frames)
       IN  IF cur.idx >= raw_len(frame_holder)
           THEN /\ cur' = [cur EXCEPT !.res = DErr("IndexOutOfBounds")]
                /\ loop_pc' = "send"
                /\ UNCHANGED frame_holder
           ELSE IF cur.idx < n
           THEN /\ cur' = [cur EXCEPT !.res = DOk(frame_holder.decoded_frames[cur.idx + 1])]
                /\ loop_pc' = "send"
                /\ UNCHANGED frame_holder
           ELSE \/ /\ frame_holder' =
                        [frame_holder EXCEPT !.decoded_frames =
                           Append(@, Decoded(frame_holder.raw_frames[n + 1]))]
                   /\ UNCHANGED <<cur, loop_pc>>
                \/ /\ \E e \in DecoderFailures : cur' = [cur EXCEPT !.res = DErr(e)]
                   /\ loop_pc' = "send"
                   /\ UNCHANGED frame_holder
    /\ ev' = NoLoopEvent
    /\ UNCHANGED <<now, actor, manager, subscriber_q, data_req_q, owner, owner_reply,
                   instances, pc, reply, session, packet_off, loopFixed>>

\* The response is built with get_ts() and sent, which ends the branch.
SendResponse ==
    /\ loop_pc = "send"
    /\ LET resp == IF cur.res.ok THEN FrameResponse(cur.res.val, get_ts(frame_holder))
                   ELSE DecodingError(cur.res.err)
       IN  Respond(cur.rid, resp, FALSE)
    /\ loop_pc' = "select"
    /\ cur' = None
    /\ packet_off' = FALSE
    /\ UNCHANGED <<frame_holder, now, actor, manager, subscriber_q, data_req_q, owner,
                   owner_reply, instances, reply, session, loopFixed>>

\* select! takes the registration branch: the SessionInstance is sent, and
\* request_instance returns it to its caller, who keeps one.
SelectRegistration ==
    /\ actor = "serving"
    /\ loop_pc = "select"
    /\ subscriber_q /= <<>>
    /\ subscriber_q' = Tail(subscriber_q)
    /\ owner' = "idle"
    /\ instances' = 1
    /\ packet_off' = FALSE
    /\ ev' = LoopEvent("reg")
    /\ UNCHANGED <<frame_holder, now, actor, manager, data_req_q, owner_reply, pc,
                   reply, loop_pc, cur, session, loopFixed>>

\* The packet branch that empties the cache when the stream fails or ends.
packet_branch_drains(fh, config, x, t) ==
    IF x = None THEN [fh |-> drain(fh, t), off |-> TRUE, type |-> "eof"]
    ELSE IF x = TransportError THEN [fh |-> drain(fh, t), off |-> TRUE, type |-> "error"]
    ELSE IF IsVideoFrame(x)
    THEN [fh |-> frame_branch(fh, config, x, t), off |-> FALSE, type |-> "frame"]
    ELSE [fh |-> fh, off |-> FALSE, type |-> "control"]

\* What polling session.next() does to the loop: a video frame goes through
\* the packet branch, another CodecItem through its empty arm; Some(Err) and
\* None do not match Some(Ok(packet)), so select! disables the branch until
\* another branch completes.
packet_branch(fh, config, x, t) ==
    IF x = None THEN [fh |-> fh, off |-> TRUE, type |-> "eof"]
    ELSE IF x = TransportError THEN [fh |-> fh, off |-> TRUE, type |-> "error"]
    ELSE IF IsVideoFrame(x)
    THEN [fh |-> frame_branch(fh, config, x, t), off |-> FALSE, type |-> "frame"]
    ELSE [fh |-> fh, off |-> FALSE, type |-> "control"]

\* The packet branch run wherever the loop is, as if the decode branch could
\* be suspended.
SelectPacket_anywhere ==
    /\ actor = "serving"
    /\ ~packet_off
    /\ session.item /= None \/ session.closed
    /\ LET out == packet_branch(frame_holder, cfg, session.item, now)
       IN  /\ frame_holder' = out.fh
           /\ packet_off' = out.off
           /\ ev' = LoopEvent(out.type)
    /\ \E nxt \in {None} \cup LoopItems :
         /\ session.closed => nxt = None
         /\ session' = [session EXCEPT !.item = nxt]
    /\ UNCHANGED <<now, actor, manager, subscriber_q, data_req_q, owner, owner_reply,
                   instances, pc, reply, loop_pc, cur, loopFixed>>

\* select! polls session.next() and it is ready. The item is consumed; the
\* stream may have its next item ready at once.
SelectPacket ==
    /\ actor = "serving"
    /\ loop_pc = "select"
    /\ ~packet_off
    /\ session.item /= None \/ session.closed
    /\ LET out == packet_branch(frame_holder, cfg, session.item, now)
       IN  /\ frame_holder' = out.fh
           /\ packet_off' = out.off
           /\ ev' = LoopEvent(out.type)
    /\ \E nxt \in {None} \cup LoopItems :
         /\ session.closed => nxt = None
         /\ session' = [session EXCEPT !.item = nxt]
    /\ UNCHANGED <<now, actor, manager, subscriber_q, data_req_q, owner, owner_reply,
                   instances, pc, reply, loop_pc, cur, loopFixed>>

LoopNext ==
    \/ LoopTick
    \/ \E x \in LoopItems : Arrive(x)
    \/ EndOfStream
    \/ LoopRegister
    \/ \E c \in Calls, idx \in 0..1 : LoopRequest(c, idx)
    \/ \E c \in Calls : LoopAbandon(c)
    \/ LoopDrop
    \/ LoopEnd
    \/ SelectDecode
    \/ StaleCheck
    \/ DecodeStep
    \/ SendResponse
    \/ SelectRegistration
    \/ SelectPacket

LoopSpec == LoopInit /\ [][LoopNext]_vars

\* The loop while its task lives and its callers wait for their responses,
\* with a cache of one delta frame.
FairInit == LoopStart(1)

FairNext ==
    \/ LoopTick
    \/ \E x \in LoopItems : Arrive(x)
    \/ EndOfStream
    \/ LoopRegister
    \/ \E c \in Calls, idx \in 0..1 : LoopRequest(c, idx)
    \/ SelectDecode
    \/ StaleCheck
    \/ DecodeStep
    \/ SendResponse
    \/ SelectRegistration
    \/ SelectPacket

\* select! picks at random among the branches that are ready, so a branch
\* that is ready again and again is taken; a branch that was taken runs to
\* its end.
LoopFair ==
    /\ FairInit /\ [][FairNext]_vars
    /\ SF_vars(SelectDecode)
    /\ SF_vars(SelectRegistration)
    /\ SF_vars(SelectPacket)
    /\ WF_vars(StaleCheck)
    /\ WF_vars(DecodeStep)
    /\ WF_vars(SendResponse)

\* ------------------------------------------------------------- the claims
\* The outcomes of the decoder over one decode request.
DecoderRuns == [fail_at : 0..MaxFrames, err : DecoderFailures]

\* The response the actor builds from the result of FrameHolder::decode.
ResponseOf(d) ==
    IF d.res.ok THEN FrameResponse(d.res.val, d.fh.ts) ELSE DecodingError(d.res.err)

\* The last step handled a decode request.
Handled == ev.type = "req"
\* The age of the cache when the last event was handled.
AgeThen == ev.at - ev.pre.ts

\* C1: a decode request handled while age > frame_lifetime drains the cache
\* (raw frames and memo empty afterwards), calls no decoder and is answered
\* OldFrame; one handled while age <= frame_lifetime is passed to
\* FrameHolder::decode, whose result is the response and the cache afterwards.
C1_StaleDrainsElseDecodes ==
    Handled =>
      /\ AgeThen > cfg.frame_lifetime =>
           /\ ev.stale
           /\ is_empty(frame_holder)
           /\ frame_holder.decoded_frames = <<>>
           /\ ev.calls = <<>>
           /\ ev.resp = OldFrame
           /\ reply[ev.rid] = OldFrame
      /\ AgeThen <= cfg.frame_lifetime =>
           /\ ~ev.stale
           /\ \E dec \in DecoderRuns :
                LET d == decode(ev.pre, dec, ev.idx)
                IN  /\ frame_holder = d.fh
                    /\ ev.calls = d.calls
                    /\ ev.resp = ResponseOf(d)
                    /\ reply[ev.rid] = ev.resp

\* C1 witness: a stale request was handled on a cache that held a memo.
C1_Witness ==
    /\ Handled
    /\ AgeThen > cfg.frame_lifetime
    /\ ev.pre.decoded_frames /= <<>>
    /\ ev.resp = OldFrame
    /\ is_empty(frame_holder)

\* C2 (as claimed): the next decode request sent after an OldFrame answer and
\* handled before any new key frame is answered IndexOutOfBounds.
C2_NextAfterOldFrameIsOutOfBounds ==
    (Handled /\ ev.after_old) => ev.resp = DecodingError("IndexOutOfBounds")

\* C3 (as claimed): a request_image call that was pending when the manager
\* was dropped (its request being sent, or sent and unanswered) returns
\* ServerDropped.
C3_PendingCallGetsServerDropped ==
    (ret.op = "request_image" /\ ret.at_drop /= "none") => ret.value = ServerDropped

\* C3 (amended): a call pending when the manager is dropped returns, and it
\* returns ServerDropped when its request was in the queue unanswered and
\* BrokenPipeline when its send had not completed.
C3_PendingCallResolves ==
    /\ [](ret.op = "request_image" =>
            /\ ret.at_drop = "img_wait" => ret.value = ServerDropped
            /\ ret.at_drop = "img_send" => ret.value = BrokenPipeline)
    /\ \A c \in Calls : (at_drop[c] /= "none") ~> (pc[c] = "done")

\* C3 witness: a call whose request was queued at the drop returned ServerDropped.
C3_Witness ==
    /\ manager = "dropped"
    /\ ret.op = "request_image"
    /\ ret.at_drop = "img_wait"
    /\ ret.value = ServerDropped

\* The last step passed a decode request to FrameHolder::decode.
Decoding == Handled /\ ~ev.stale
\* The frames between the memo's end and index, in order, before the last event.
Undecoded(index) ==
    SubSeq(ev.pre.raw_frames, Len(ev.pre.decoded_frames) + 1, index + 1)
IsPrefix(a, b) == Len(a) <= Len(b) /\ a = SubSeq(b, 1, Len(a))
Max(a, b) == IF a >= b THEN a ELSE b

\* C4: the memo is never longer than the raw frames and slot i holds the
\* decoder's output for raw frame i of the current epoch; a request for an
\* index i > 0 that is answered with an image leaves slots 0..i filled, and
\* the image is the decoder's output for raw frame i.
C4_MemoIsDecodedPrefix ==
    /\ Len(frame_holder.decoded_frames) <= Len(frame_holder.raw_frames)
    /\ \A i \in 1..Len(frame_holder.decoded_frames) :
         frame_holder.decoded_frames[i] = Decoded(frame_holder.raw_frames[i])
    /\ (Decoding /\ ev.resp.kind = "Ok") =>
         /\ Len(frame_holder.decoded_frames) >= ev.idx + 1
         /\ Len(frame_holder.decoded_frames) >= Len(ev.pre.decoded_frames)
         /\ ev.resp.frame = Decoded(ev.pre.raw_frames[ev.idx + 1])

\* C4 witness: a request for index 1 is answered with an image while a
\* request for index 0 is still waiting in the queue.
C4_Witness ==
    /\ Decoding
    /\ ev.idx = 1
    /\ ev.resp.kind = "Ok"
    /\ ev.pre.decoded_frames = <<>>
    /\ Len(frame_holder.decoded_frames) = 2
    /\ data_req_q /= <<>>
    /\ Head(data_req_q).idx = 0

\* C5 (as claimed): in one epoch the decoder is called on each raw frame at
\* most once, whatever requests are made.
C5_DecoderCalledAtMostOnce ==
    \A i \in 1..Len(ninv) : ninv[i].n <= 1

\* C5 (amended): in one epoch the decoder returns an image for each raw frame
\* at most once, and exactly for the frames of the memo; it is never called on
\* a frame of the memo, and only a decode request calls it. (A frame whose
\* decode failed is given to the decoder again by a later request.)
C5_DecodedAtMostOnce ==
    /\ Len(ninv) = Len(frame_holder.raw_frames)
    /\ \A i \in 1..Len(ninv) :
         /\ ninv[i].ok <= 1
         /\ ninv[i].ok = 1 <=> i <= Len(frame_holder.decoded_frames)
    /\ Decoding =>
         \A k \in 1..Len(ev.calls) :
           \A i \in 1..Len(ev.pre.decoded_frames) : ev.calls[k] /= ev.pre.raw_frames[i]
    /\ ~Decoding => ev.calls = <<>>

\* C5 witness: a frame's decode failed on one request and a later request
\* gave the frame to the decoder again, this time with an image.
C5_Witness ==
    \E i \in 1..Len(ninv) : ninv[i].n = 2 /\ ninv[i].ok = 1

\* C6: a request that FrameHolder::decode serves calls the decoder on the
\* frames after the memo, in their order, up to the index (or up to the frame
\* whose decode fails); so after K, D1, D2 a first request for index 2 that is
\* answered with an image has run the decoder on K, D1, D2 in that order, and a
\* request for an index inside the memo is answered from it with no decoder call.
C6_DecodesInOrderThenMemo ==
    Decoding =>
      /\ ev.idx < Len(ev.pre.raw_frames) => IsPrefix(ev.calls, Undecoded(ev.idx))
      /\ (ev.idx < Len(ev.pre.raw_frames) /\ ev.resp.kind = "Ok") =>
           ev.calls = Undecoded(ev.idx)
      /\ (ev.idx = 2 /\ Len(ev.pre.raw_frames) = 3 /\ ev.pre.decoded_frames = <<>>
            /\ ev.resp.kind = "Ok") =>
           ev.calls = <<ev.pre.raw_frames[1], ev.pre.raw_frames[2], ev.pre.raw_frames[3]>>
      /\ ev.idx < Len(ev.pre.decoded_frames) =>
           /\ ev.calls = <<>>
           /\ ev.resp = FrameResponse(ev.pre.decoded_frames[ev.idx + 1], ev.pre.ts)
           /\ frame_holder = ev.pre

\* C6 witness: after K, D1, D2 the first request (index 2) filled the memo and
\* the second request (index 1) is answered from it.
C6_Witness ==
    /\ Decoding
    /\ ev.rid = 2
    /\ ev.idx = 1
    /\ Len(ev.pre.raw_frames) = 3
    /\ ev.pre.raw_frames[1].key /\ ~ev.pre.raw_frames[2].key /\ ~ev.pre.raw_frames[3].key
    /\ Len(ev.pre.decoded_frames) = 3
    /\ ninv = <<[n |-> 1, ok |-> 1], [n |-> 1, ok |-> 1], [n |-> 1, ok |-> 1]>>
    /\ ev.calls = <<>>
    /\ ev.resp.kind = "Ok"

\* C7 (as claimed): the raw frames are never more than buf_size, for every
\* buf_size, 0 included.
C7_LengthWithinCap ==
    Len(frame_holder.raw_frames) <= cfg.buf_size

\* C7 (amended): the raw frames are never more than buf_size or, when buf_size
\* is 0, more than the one key frame; a delta frame that arrives when the
\* length has reached buf_size leaves the cache unchanged.
C7_LengthWithinCapOrKeyFrame ==
    /\ Len(frame_holder.raw_frames) <= Max(cfg.buf_size, 1)
    /\ cfg.buf_size >= 1 => Len(frame_holder.raw_frames) <= cfg.buf_size
    /\ (ev.type = "delta" /\ Len(ev.pre.raw_frames) >= cfg.buf_size) =>
         frame_holder = ev.pre

\* C7 witness: a delta frame arrived at a cache of buf_size >= 2 frames.
C7_Witness ==
    /\ ev.type = "delta"
    /\ cfg.buf_size >= 2
    /\ Len(ev.pre.raw_frames) = cfg.buf_size
    /\ frame_holder = ev.pre

\* C8: after a key frame is handled, whatever the cache and buf_size were, the
\* raw frames are that key frame alone, the memo is empty and the anchor
\* timestamp is the time of the ingestion.
C8_KeyFrameRestartsCache ==
    ev.type = "key" =>
      /\ frame_holder.raw_frames = <<ev.frame>>
      /\ raw_len(frame_holder) = 1
      /\ frame_holder.decoded_frames = <<>>
      /\ frame_holder.ts = ev.at
      /\ elapsed(frame_holder, ev.at) = 0

\* C8 witness: a key frame arrived at a cache at its cap, with a memo and an
\* older anchor.
C8_Witness ==
    /\ ev.type = "key"
    /\ Len(ev.pre.raw_frames) >= cfg.buf_size
    /\ ev.pre.decoded_frames /= <<>>
    /\ ev.pre.ts < ev.at
    /\ frame_holder.raw_frames = <<ev.frame>>

\* C9 (as claimed): when the raw frames are not empty the first is a key frame.
C9_FirstFrameIsKeyFrame ==
    frame_holder.raw_frames /= <<>> => frame_holder.raw_frames[1].key

\* The decoder failed in the last decode request.
DecoderFailed == ev.resp.kind = "DecodingError" /\ ev.resp.err \in DecoderFailures

\* C10 (as claimed), with the decoder working: a request for index n answered
\* IndexOutOfBounds when the length was n is answered with an image once one
\* more delta frame has arrived.
C10_SucceedsAfterOneMoreDelta ==
    (Decoding /\ ev.probe /= None /\ ev.probe.arrived /\ ev.idx = ev.probe.n
       /\ ~DecoderFailed)
      => ev.resp.kind = "Ok"

\* C10 (amended): FrameHolder::decode of an index at or past the length
\* returns IndexOutOfBounds, calls no decoder and leaves the cache unchanged;
\* a request for index n refused when the length was n passes the index check
\* once one more delta frame has been stored, and is refused again when that
\* delta frame arrived at a cache of buf_size frames and was dropped.
C10_OutOfBoundsUntilDeltaStored ==
    Decoding =>
      /\ ev.idx >= Len(ev.pre.raw_frames) =>
           /\ ev.resp = DecodingError("IndexOutOfBounds")
           /\ ev.calls = <<>>
           /\ frame_holder = ev.pre
      /\ ev.idx < Len(ev.pre.raw_frames) =>
           ev.resp /= DecodingError("IndexOutOfBounds")
      /\ (ev.probe /= None /\ ev.probe.arrived /\ ev.idx = ev.probe.n) =>
           /\ ev.probe.n >= cfg.buf_size => ev.resp = DecodingError("IndexOutOfBounds")
           /\ ev.probe.n < cfg.buf_size =>
                /\ Len(ev.pre.raw_frames) > ev.probe.n
                /\ ev.resp /= DecodingError("IndexOutOfBounds")
                /\ ~DecoderFailed =>
                     ev.resp = FrameResponse(Decoded(ev.pre.raw_frames[ev.idx + 1]),
                                             ev.pre.ts)

\* C10 witness: index 1 was refused at length 1, a delta frame was stored, and
\* the repeated request for index 1 is answered with its image.
C10_Witness ==
    /\ Decoding
    /\ ev.probe = [n |-> 1, arrived |-> TRUE]
    /\ ev.idx = 1
    /\ ev.resp.kind = "Ok"
    /\ Len(ev.pre.raw_frames) = 2

\* The last step started an epoch: a key frame was ingested or a stale request
\* drained the cache.
EpochStarted == ev.type = "key" \/ (Handled /\ ev.stale)
\* The last step was a step of the actor that started no epoch.
EpochKept == ev.type \in {"boot", "panic", "reg", "delta"} \/ Decoding

\* C11: a response with an image for index i carries the decoder's output for
\* raw frame i of the epoch current when the request was handled and the anchor
\* timestamp of that epoch: the anchor is the time the epoch started and no
\* other step changes it, and every memo entry is the decoder's output for the
\* raw frame of the current epoch at its index (none is left over from an
\* epoch that a key frame or a drain replaced).
C11_ResponseIsOfCurrentEpoch ==
    /\ Len(frame_holder.decoded_frames) <= Len(frame_holder.raw_frames)
    /\ \A i \in 1..Len(frame_holder.decoded_frames) :
         frame_holder.decoded_frames[i].img = frame_holder.raw_frames[i].id
    /\ EpochStarted => frame_holder.ts = ev.at
    /\ EpochKept => frame_holder.ts = ev.pre.ts
    /\ (Decoding /\ ev.resp.kind = "Ok") =>
         /\ ev.idx < Len(ev.pre.raw_frames)
         /\ ev.resp.frame = Decoded(ev.pre.raw_frames[ev.idx + 1])
         /\ ev.resp.i_frame_ts = ev.pre.ts
         /\ frame_holder.raw_frames = ev.pre.raw_frames
         /\ reply[ev.rid] = ev.resp

\* C11 witness: the second request is answered with an image in an epoch that
\* a key frame started at time 1, after an epoch that started at time 0.
C11_Witness ==
    /\ Decoding
    /\ ev.rid = 2
    /\ ev.resp.kind = "Ok"
    /\ ev.pre.raw_frames[1].key
    /\ ev.pre.raw_frames[1].id >= 2
    /\ ev.pre.ts = 1
    /\ ev.resp.i_frame_ts = 1

\* The step is the return of call c of request_image, of a request_instance call.
ImageReturns(c) == ret'.op = "request_image" /\ ret'.rid = c
InstanceReturns == ret'.op = "request_instance"
\* The receiving end of both queues is gone.
QueuesClosed == actor = "ended"

\* What C12 says of one step.
C12_Step ==
    /\ \A c \in Calls :
         /\ (pc[c] /= "done" /\ pc'[c] = "done") => ImageReturns(c)
         /\ ImageReturns(c) =>
              /\ ret'.value = BrokenPipeline
                   <=> (pc[c] = "img_send" /\ QueuesClosed)
              /\ ret'.value = ServerDropped
                   <=> (pc[c] = "img_wait" /\ reply[c] = None /\ QueuesClosed)
    /\ (owner /= "idle" /\ owner' = "idle") => InstanceReturns
    /\ InstanceReturns =>
         /\ ret'.value = BrokenPipeline
              <=> (owner = "send" /\ QueuesClosed)
         /\ ret'.value = ServerDropped
              <=> (owner = "wait" /\ owner_reply = None /\ QueuesClosed)

\* C12: request_image and request_instance return BrokenPipeline exactly when
\* the send finds the queue closed, and ServerDropped exactly when the request
\* was enqueued and the actor ended (failed bootstrap, abort) with no response
\* sent; and a call whose queue is closed, or whose actor ended, returns.
C12_ClosedQueueOrEndedActor ==
    /\ [][C12_Step]_vars
    /\ \A c \in Calls :
         (pc[c] \in {"img_send", "img_wait"} /\ QueuesClosed) ~> (pc[c] = "done")
    /\ (owner /= "idle" /\ QueuesClosed) ~> (owner = "idle")

\* C12 witness: a request_instance call enqueued its request, the bootstrap
\* failed, and the call returned ServerDropped.
C12_Witness ==
    /\ ret.op = "request_instance"
    /\ ret.value = ServerDropped
    /\ manager = "alive"
    /\ actor = "ended"

\* C13: a registration request the serving actor dequeues is answered, in the
\* same step and whatever the cache holds, with a SessionInstance on the
\* decode-request queue; request_instance returns that instance or one of the
\* two channel errors, never UnableToSubscribe.
C13_RegistrationNeverDeclined ==
    /\ ev.type = "reg" =>
         /\ owner = "wait"
         /\ owner_reply = SessionInstance_new
         /\ owner_reply.data_req_tx = "data_req_q"
         /\ frame_holder = ev.pre
    /\ owner_reply \in {None, SessionInstance_new}
    /\ ret.op = "request_instance" =>
         /\ ret.value \in {SessionInstance_new, BrokenPipeline, ServerDropped}
         /\ ret.value.kind /= "UnableToSubscribe"
         /\ ret.value = SessionInstance_new => instances = 1

\* C13 witness: a registration request is answered while the cache is at its
\* cap and stale.
C13_Witness ==
    /\ ev.type = "reg"
    /\ cfg.buf_size >= 1
    /\ raw_len(frame_holder) >= cfg.buf_size
    /\ elapsed(frame_holder, now) > cfg.frame_lifetime
    /\ owner_reply = SessionInstance_new

\* The last decode request ended in a decode error.
DecodeErrored == Decoding /\ ev.resp.kind = "DecodingError"

\* The actor never entered its loop: nothing was ingested, registered or asked.
NeverServed ==
    /\ nframes = 0
    /\ instances = 0
    /\ nreq = 0
    /\ frame_holder = FrameHolder_new(0)

\* C14: a decode request that ends in a decode error (the index check's or the
\* decoder's) has the error sent to its caller and leaves the actor serving:
\* it can ingest the next frame and answer a queued registration request (the
\* witness has it answer a later decode request); and an actor that has ended
\* was ended by the drop of the manager or by the failed bootstrap, never by a
\* request.
C14_DecodeErrorKeepsActor ==
    /\ DecodeErrored =>
         /\ actor = "serving"
         /\ reply[ev.rid] = ev.resp
         /\ nframes < MaxFrames => ENABLED IngestFrame(TRUE) /\ ENABLED IngestFrame(FALSE)
         /\ subscriber_q /= <<>> => ENABLED HandleRegistration
    /\ actor = "ended" => (manager = "dropped" \/ NeverServed)

\* C14 witness: the decoder failed on a frame for one request, and the actor
\* then answered a later request with the image of that frame.
C14_Witness ==
    /\ Decoding
    /\ ev.rid = 2
    /\ ev.resp.kind = "Ok"
    /\ ev.calls /= <<>>
    /\ \E i \in 1..Len(ninv) : ninv[i].n = 2 /\ ninv[i].ok = 1
    /\ actor = "serving"

\* The index of the frame the decoder failed on in the last decode request:
\* the frames before it are in the memo.
FailedFrame == Len(ev.pre.decoded_frames) + Len(ev.calls) - 1

\* C15: when FrameHolder::decode fails because the decoder returned an error on
\* frame j <= index, the raw frames and the anchor timestamp are as before, the
\* entries the memo had are as before, and the memo is exactly the decoded
\* frames 0..j-1: nothing is stored for frame j or a later one.
C15_FailedDecodeKeepsCache ==
    (Decoding /\ DecoderFailed) =>
      /\ ev.calls /= <<>>
      /\ FailedFrame <= ev.idx
      /\ ev.calls[Len(ev.calls)] = ev.pre.raw_frames[FailedFrame + 1]
      /\ frame_holder.raw_frames = ev.pre.raw_frames
      /\ frame_holder.ts = ev.pre.ts
      /\ IsPrefix(ev.pre.decoded_frames, frame_holder.decoded_frames)
      /\ Len(frame_holder.decoded_frames) = FailedFrame
      /\ \A i \in 1..Len(frame_holder.decoded_frames) :
           frame_holder.decoded_frames[i] = Decoded(ev.pre.raw_frames[i])

\* C15 witness: a request for index 2 on an empty memo decodes frame 0 and
\* fails on frame 1: the memo holds frame 0 alone.
C15_Witness ==
    /\ Decoding
    /\ DecoderFailed
    /\ ev.idx = 2
    /\ ev.pre.decoded_frames = <<>>
    /\ Len(ev.calls) = 2
    /\ Len(frame_holder.decoded_frames) = 1

\* The step is one of a caller: of request_instance, of request_image, or the
\* drop of the manager.
CallerStep == pc' /= pc \/ owner' /= owner \/ manager' /= manager
\* The step is an iteration of the actor's loop that handled a frame or a
\* decode request.
CacheEvent == actor = "serving" /\ ev'.type \in {"key", "delta", "req"}

\* C16: a step of a caller (request_instance, the send or the await of
\* request_image, with another call in flight or not, the drop of the manager)
\* leaves raw frames, memo and anchor timestamp unchanged; the cache changes
\* only in an iteration of the actor's loop, on a frame or a decode request.
C16_OnlyActorWritesCache ==
    /\ [][CallerStep => frame_holder' = frame_holder]_vars
    /\ [][frame_holder' /= frame_holder => (CacheEvent /\ ~CallerStep)]_vars

\* C16 witness: a call returned its image while the other call was waiting,
\* and the cache holds its frames and its memo.
C16_Witness ==
    /\ ret.op = "request_image"
    /\ ret.value.kind = "Ok"
    /\ \E c \in Calls : pc[c] = "img_wait"
    /\ raw_len(frame_holder) >= 2
    /\ frame_holder.decoded_frames /= <<>>

\* The requests of call c that are in the decode-request queue.
Queued(c) == {k \in 1..Len(data_req_q) : data_req_q[k].rid = c}
\* Call c is the first of the calls suspended in send.
FirstSuspended(c) ==
    /\ pc[c] = "img_send"
    /\ \A d \in DOMAIN pc : d < c => pc[d] /= "img_send"

\* What C17 says of one step: a call leaves its send only by enqueueing its
\* request, in a queue that had room.
C17_Step ==
    \A c \in DOMAIN pc :
      (pc[c] = "img_send" /\ pc'[c] /= "img_send") =>
        /\ pc'[c] = "img_wait"
        /\ Len(data_req_q) < DataQueueCap
        /\ Len(data_req_q') = Len(data_req_q) + 1
        /\ data_req_q'[Len(data_req_q')].rid = c
        /\ data_req_q'[Len(data_req_q')].idx = call[c].idx

\* C17: the decode-request queue never holds more than 32 requests; a call of
\* request_image whose send finds 32 requests queued cannot enqueue and stays
\* in its send; once the actor has dequeued a request the first suspended call
\* can enqueue, and a call leaves its send only by enqueueing; the request of
\* a call that waits for its response is in the queue, once, until the actor
\* dequeues and answers it: none is dropped or rejected.
C17_QueueWithinCapacity ==
    /\ [](Len(data_req_q) <= DataQueueCap)
    /\ [](\A c \in DOMAIN pc :
            /\ (pc[c] = "img_send" /\ Len(data_req_q) = DataQueueCap)
                 => ~ENABLED SendRequest(c)
            /\ (FirstSuspended(c) /\ Len(data_req_q) < DataQueueCap)
                 => ENABLED SendRequest(c)
            /\ (pc[c] = "img_wait" /\ reply[c] = None) => Cardinality(Queued(c)) = 1
            /\ (pc[c] /= "img_wait" \/ reply[c] /= None) => Queued(c) = {})
    /\ [][C17_Step]_vars

\* C17 witness: the actor has just dequeued a request from the full queue and
\* a call that was suspended in its send can now enqueue.
C17_Witness ==
    /\ ev.type = "req"
    /\ Len(data_req_q) = DataQueueCap - 1
    /\ \E c \in DOMAIN pc : FirstSuspended(c) /\ ENABLED SendRequest(c)

\* What C18 says of one step: the one-shot channel of call c is written once,
\* by the actor when it handles the request of call c, with the response it
\* computed for that request's index; it is read by call c alone, which
\* returns what was written; and a call returns once.
C18_Step ==
    \A c \in Calls :
      /\ reply'[c] /= reply[c] =>
           \/ /\ reply[c] = None
              /\ pc[c] = "img_wait"
              /\ Head(data_req_q).rid = c
              /\ ev'.type = "req"
              /\ ev'.rid = c
              /\ ev'.idx = call[c].idx
              /\ reply'[c] = ev'.resp
              /\ \A d \in Calls \ {c} : reply'[d] = reply[d]
           \/ /\ reply'[c] = None
              /\ ImageReturns(c)
              /\ ret'.value = reply[c]
      /\ ImageReturns(c) =>
           /\ pc[c] \in {"img_send", "img_wait"}
           /\ pc'[c] = "done"
           /\ reply[c] /= None => ret'.value = reply[c]
           /\ \A d \in Calls \ {c} : reply'[d] = reply[d] /\ pc'[d] = pc[d]
      /\ pc[c] = "done" => pc'[c] = "done"

\* C18: with calls of request_image in flight together, each call gets at most
\* one response, the one the actor computed for that call's own request and
\* index; no response reaches another call; and a call whose response is there
\* can return whatever the other calls wait for.
C18_OwnResponseOnly ==
    /\ [][C18_Step]_vars
    /\ [](\A c \in Calls :
            /\ reply[c] /= None => pc[c] = "img_wait"
            /\ (pc[c] = "img_wait" /\ reply[c] /= None) => ENABLED AwaitResponse(c))
    /\ []((Decoding /\ ev.resp.kind = "Ok") =>
            /\ call[ev.rid] /= None
            /\ ev.resp.frame = Decoded(ev.pre.raw_frames[call[ev.rid].idx + 1]))

\* C18 witness: the second call, for another index than the first, returned
\* its image while the first call's request is still unanswered.
C18_Witness ==
    /\ ret.op = "request_image"
    /\ ret.rid = 2
    /\ ret.value.kind = "Ok"
    /\ ret.value.frame.img = frame_holder.raw_frames[1].id
    /\ pc[1] = "img_wait"
    /\ reply[1] = None
    /\ call[1].idx = 1

\* The units of a well-formed input, and what the claims say reformat makes
\* of them: each unit after a start code, in order.
RECURSIVE UnitsOf(_)
UnitsOf(d) ==
    IF Len(d) < 4 THEN <<>>
    ELSE LET n == from_be_bytes(d[1], d[2], d[3], d[4])
         IN  <<SubSeq(d, 5, 4 + n)>> \o UnitsOf(SubSeq(d, 5 + n, Len(d)))
RECURSIVE AnnexB(_)
AnnexB(us) ==
    IF us = <<>> THEN <<>> ELSE StartCode \o Head(us) \o AnnexB(Tail(us))
RECURSIVE AnnexBLen(_)
AnnexBLen(us) ==
    IF us = <<>> THEN 0 ELSE 4 + Len(Head(us)) + AnnexBLen(Tail(us))

\* C19: for a well-formed input (units of no bytes and the empty input
\* included) AVCCDecoder::decode succeeds and returns, in order, each unit
\* after the start code 00 00 00 01: as many bytes as the sum over the units
\* of 4 + the unit's length.
C19_ReformatIsAnnexB ==
    (result /= None /\ avcc_data \in WellFormedInputs) =>
      LET us == UnitsOf(avcc_data)
      IN  /\ Encode(us) = avcc_data
          /\ result.ok
          /\ result.val = AnnexB(us)
          /\ Len(result.val) = AnnexBLen(us)
          /\ buf = result.val

\* C19 witness: a decoder whose first call failed is given a unit of no bytes
\* followed by a unit of two bytes or more, and succeeds.
C19_Witness ==
    /\ prev /= None
    /\ ~prev.result.ok
    /\ result /= None
    /\ result.ok
    /\ avcc_data \in WellFormedInputs
    /\ Len(UnitsOf(avcc_data)) = 2
    /\ UnitsOf(avcc_data)[1] = <<>>
    /\ Len(UnitsOf(avcc_data)[2]) >= 2
    /\ Len(result.val) = 8 + Len(UnitsOf(avcc_data)[2])

\* Both calls were given a well-formed input, and not the same one.
TwoWellFormed ==
    /\ prev /= None
    /\ result /= None
    /\ prev.input \in WellFormedInputs
    /\ avcc_data \in WellFormedInputs
    /\ prev.input /= avcc_data
\* A unit of the input holds the bytes of the start code.
HoldsStartCode(d) ==
    \E i \in 1..Len(UnitsOf(d)) :
      \E k \in 1..(Len(UnitsOf(d)[i]) - 3) :
        SubSeq(UnitsOf(d)[i], k, k + 3) = StartCode

\* C20 (as claimed): two distinct well-formed inputs that are not empty never
\* give the same output.
C20_Injective ==
    (TwoWellFormed /\ prev.input /= <<>> /\ avcc_data /= <<>>)
      => prev.result /= result

\* C20 (amended): two distinct well-formed inputs give the same output only
\* when a unit of one of them holds the bytes 00 00 00 01 (that unit reads
\* like two units); on the inputs whose units do not hold these bytes, the
\* empty input included, reformat is injective.
C20_InjectiveWithoutStartCode ==
    TwoWellFormed =>
      /\ prev.result.ok /\ result.ok
      /\ prev.result = result => (HoldsStartCode(prev.input) \/ HoldsStartCode(avcc_data))
      /\ (~HoldsStartCode(prev.input) /\ ~HoldsStartCode(avcc_data))
           => prev.result.val /= result.val

\* C20 witness: one unit of four bytes and two units of no bytes, none with
\* the start code in it, give outputs of the same length that differ.
C20_Witness ==
    /\ TwoWellFormed
    /\ ~HoldsStartCode(prev.input)
    /\ ~HoldsStartCode(avcc_data)
    /\ Len(UnitsOf(prev.input)) = 1
    /\ Len(UnitsOf(avcc_data)) = 2
    /\ Len(prev.result.val) = Len(result.val)
    /\ prev.result.val /= result.val

\* What is left of an input after its leading well-formed units.
RECURSIVE Remainder(_)
Remainder(d) ==
    IF Len(d) < 4 THEN d
    ELSE LET n == from_be_bytes(d[1], d[2], d[3], d[4])
         IN  IF n > Len(d) - 4 THEN d ELSE Remainder(SubSeq(d, 5 + n, Len(d)))
\* The leading well-formed units of an input.
LeadingUnits(d) == UnitsOf(SubSeq(d, 1, Len(d) - Len(Remainder(d))))

\* C21: AVCCDecoder::decode fails with FieldOutOfBounds when 1 to 3 bytes are
\* left where a length prefix is due, and with NalOutOfBounds when a prefix
\* declares more bytes than are left after it; the result is then the error
\* alone, with no bytes of output, also after well-formed units (whose output
\* stays in the decoder's own buffer and is not returned); it succeeds
\* otherwise.
C21_TruncatedInputFails ==
    result /= None =>
      LET left == Remainder(avcc_data)
      IN  /\ Len(left) \in 1..3 => result = DErr("FieldOutOfBounds")
          /\ Len(left) >= 4 => result = DErr("NalOutOfBounds")
          /\ left = <<>> => result.ok
          /\ ~result.ok =>
               /\ DOMAIN result = {"ok", "err"}
               /\ buf = AnnexB(LeadingUnits(avcc_data))

\* C21 witness: after a well-formed unit of two bytes or more, a prefix
\* declares more bytes than are left: NalOutOfBounds, and the first unit's
\* output is not returned.
C21_Witness ==
    /\ result = DErr("NalOutOfBounds")
    /\ Len(LeadingUnits(avcc_data)) = 1
    /\ Len(LeadingUnits(avcc_data)[1]) >= 2
    /\ Len(Remainder(avcc_data)) >= 5
    /\ buf /= <<>>

\* The stages of a decoder, from left to right.
RECURSIVE StagesOf(_)
StagesOf(d) == IF IsStage(d) THEN <<d>> ELSE StagesOf(d.a) \o StagesOf(d.b)
\* The marks of the first n stages.
MarksOf(ss, n) == [j \in 1..n |-> ss[j].stage]
\* The first stage that fails, or 0.
FirstFailing(ss) ==
    IF \E j \in 1..Len(ss) : ss[j].fails
    THEN CHOOSE j \in 1..Len(ss) :
           ss[j].fails /\ \A k \in 1..(j - 1) : ~ss[k].fails
    ELSE 0

\* C22: a ChainedDecoder of any nesting runs its stages from left to right,
\* each on the output of the one before it (so every composite runs its left
\* child on its input, then its right child on the left child's output), and
\* stops at the first stage that fails: no stage to the right of it is invoked
\* and the composite returns that stage's error as it is.
C22_ChainRunsLeftThenRight ==
    chain_result /= None =>
      LET ss == StagesOf(chained)
          k  == FirstFailing(ss)
          n  == IF k = 0 THEN Len(ss) ELSE k
      IN  /\ Len(chain_calls) = n
          /\ \A j \in 1..n :
               chain_calls[j] = [stage |-> ss[j].stage,
                                 data  |-> chain_data \o MarksOf(ss, j - 1)]
          /\ chain_result = IF k = 0 THEN DOk(chain_data \o MarksOf(ss, n))
                            ELSE DErr(StageError(ss[k].stage))

\* C22 witness: in a chain of depth 2 whose children are both chains, the
\* right stage of the left child fails: two stages have run, the right child
\* has not, and the result is that stage's error.
C22_Witness ==
    /\ chain_result /= None
    /\ ~IsStage(chained)
    /\ ~IsStage(chained.a) /\ ~IsStage(chained.b)
    /\ IsStage(chained.a.a) /\ IsStage(chained.a.b)
    /\ ~chained.a.a.fails /\ chained.a.b.fails
    /\ Len(chain_calls) = 2
    /\ chain_result = DErr(StageError(chained.a.b.stage))

\* One step of C23.
C23_Step ==
    /\ Len(data_req_q') < Len(data_req_q) /\ actor' /= "ended" =>
         /\ ~is_empty(frame_holder)
         /\ ev'.type = "req"
         /\ ev'.rid = Head(data_req_q).rid
         /\ ev'.pre = frame_holder
         /\ ev'.resp.kind = "Ok" =>
              /\ ev'.idx < raw_len(frame_holder)
              /\ ev'.resp.frame = Decoded(frame_holder.raw_frames[ev'.idx + 1])
              /\ ev'.resp.i_frame_ts = get_ts(frame_holder)
    /\ is_empty(frame_holder) /\ actor' /= "ended" =>
         /\ Len(data_req_q') >= Len(data_req_q)
         /\ \A i \in 1..Len(data_req_q) :
              /\ data_req_q'[i] = data_req_q[i]
              /\ reply[data_req_q[i].rid] = None
              /\ reply'[data_req_q[i].rid] = None
              /\ pc'[data_req_q[i].rid] = "img_wait"

\* C23: the actor takes a decode request from its queue only while the cache
\* holds a frame. While the cache is empty (before the first frame, after a
\* drain) every queued request stays queued and unanswered and its caller
\* stays suspended; when it is handled, the response is made from the cache as
\* it is then.
C23_NoDequeueWhileEmpty == [][C23_Step]_vars

\* C23 witness: after a drain the cache is empty and a request is in the
\* queue, its caller suspended, the actor serving.
C23_Witness ==
    /\ actor = "serving"
    /\ is_empty(frame_holder)
    /\ after_old /= 0
    /\ data_req_q /= <<>>
    /\ pc[Head(data_req_q).rid] = "img_wait"
    /\ reply[Head(data_req_q).rid] = None

\* One step of C24.
C24_Step ==
    /\ loop_pc = "select" /\ loop_pc' /= "select" =>
         /\ cur'.snap = frame_holder
         /\ frame_holder' = frame_holder
    /\ loop_pc /= "select" =>
         /\ actor' = "serving"
         /\ ev'.type \in {"none", "sent"}
         /\ IsPrefix(data_req_q, data_req_q')
         /\ IsPrefix(subscriber_q, subscriber_q')
         /\ owner' = owner \/ owner = "idle"
         /\ instances' = instances
         /\ session'.item /= session.item => session.item = None
         /\ frame_holder.raw_frames = cur.snap.raw_frames
         /\ get_ts(frame_holder) = get_ts(cur.snap)
         /\ loop_pc' /= "select" =>
              /\ cur'.snap = cur.snap /\ cur'.rid = cur.rid /\ cur'.idx = cur.idx
              /\ frame_holder'.raw_frames = cur.snap.raw_frames
              /\ get_ts(frame_holder') = get_ts(cur.snap)
         /\ loop_pc' = "select" =>
              /\ ev'.type = "sent" /\ ev'.rid = cur.rid
              /\ IF ev'.stale
                 THEN frame_holder' = drain(frame_holder, now)
                 ELSE /\ frame_holder' = frame_holder
                      /\ ev'.resp.kind = "Ok" =>
                           /\ ev'.resp.i_frame_ts = get_ts(cur.snap)
                           /\ ev'.resp.frame = Decoded(cur.snap.raw_frames[cur.idx + 1])

\* C24: a branch of the loop runs to its end before another event is handled.
\* From the moment a decode request is taken from the queue to the sending of
\* its response no frame or other packet is polled, no other request is
\* taken, no registration is answered and the task does not end, whatever
\* arrives meanwhile; the coded frames and the anchor timestamp are those of
\* the moment of dequeuing at the staleness check, at every decoder call and
\* when the response is built (a stale request's own drain is the one change).
C24_BranchRunsToCompletion == [][C24_Step]_vars

\* C24 witness: the loop is inside the decode branch, after a decoder call and
\* before the next one; meanwhile a key frame is ready at the transport,
\* another request is queued and the manager has been dropped.
C24_Witness ==
    /\ loop_pc = "decode"
    /\ cur.idx = 1
    /\ Len(frame_holder.decoded_frames) = 1
    /\ raw_len(frame_holder) = 2
    /\ session.item = Frame(TRUE, 1)
    /\ data_req_q /= <<>>
    /\ manager = "dropped"
    /\ actor = "serving"

\* Call c's request is in the queue of decode requests.
InQueue(c) == \E i \in 1..Len(data_req_q) : data_req_q[i].rid = c

\* C25: with select! fair among its ready branches, no event source is
\* starved, whatever the others do: a decode request queued while the actor
\* serves and the cache is not empty is answered (or the cache is drained
\* meanwhile, or the task is aborted); a registration request is answered (or
\* the task is aborted); a video frame that is ready at the transport, with
\* the packet branch not disabled by a failed pattern, is ingested (or the
\* task is aborted).
C25_NoStarvation ==
    /\ \A c \in Calls :
         (InQueue(c) /\ actor = "serving" /\ ~is_empty(frame_holder))
           ~> (pc[c] = "new" \/ is_empty(frame_holder))
    /\ (owner = "reg_wait") ~> (owner = "idle")
    /\ (IsVideoFrame(session.item) /\ ~packet_off /\ actor = "serving")
         ~> (ev.type = "frame" \/ actor = "ended")

\* C25 witness: a decode request is answered while a registration request is
\* queued, a video frame is ready at the transport and the other call's
\* request is queued.
C25_Witness ==
    /\ ev.type = "sent"
    /\ ev.delivered
    /\ actor = "serving"
    /\ ~is_empty(frame_holder)
    /\ owner = "reg_wait"
    /\ IsVideoFrame(session.item)
    /\ data_req_q /= <<>>

\* One step of C26.
C26_Step ==
    ev'.type \in {"control", "error", "eof"} =>
      /\ ~IsVideoFrame(session.item)
      /\ frame_holder' = frame_holder
      /\ actor = "serving" /\ actor' = "serving"
      /\ loop_pc' = "select"
      /\ data_req_q' = data_req_q
      /\ subscriber_q' = subscriber_q
      /\ pc' = pc

\* After such a packet the other branches are ready as before.
C26_StillServes ==
    actor = "serving" /\ loop_pc = "select" /\ (packet_off \/ session.closed) =>
      /\ subscriber_q /= <<>> => ENABLED SelectRegistration
      /\ data_req_q /= <<>> /\ ~is_empty(frame_holder) => ENABLED SelectDecode

\* C26: an item of the transport that is no video frame (another CodecItem,
\* an error, the end of the stream) leaves the cache, the queues and the calls
\* as they are and the task serving; with the packet branch disabled or the
\* stream ended the loop still takes the registration branch when a
\* registration request is queued and the decode branch when a decode request
\* is queued and the cache is not empty.
C26_OtherPacketKeepsActor == [][C26_Step]_vars /\ []C26_StillServes

\* C26 witness: after the stream has ended or failed (the packet branch is
\* still disabled) the loop has decoded a frame for a request and is about to
\* send it.
C26_Witness ==
    /\ packet_off
    /\ loop_pc = "send"
    /\ cur.res.ok
    /\ actor = "serving"

\* C27: the staleness check comes before the index check and the memo. A
\* request handled while age > frame_lifetime is answered OldFrame and drains
\* the cache also when its index is out of bounds or its frame is in the memo;
\* IndexOutOfBounds and bytes taken from the memo are responses of a cache
\* that was not stale, which they leave as it was.
C27_StaleBeforeIndex ==
    Handled =>
      /\ /\ AgeThen > cfg.frame_lifetime
         /\ ev.idx >= raw_len(ev.pre) \/ ev.idx < Len(ev.pre.decoded_frames)
         => /\ ev.resp = OldFrame
            /\ reply[ev.rid] = OldFrame
            /\ frame_holder = drain(ev.pre, ev.at)
      /\ ev.resp = DecodingError("IndexOutOfBounds") =>
           /\ AgeThen <= cfg.frame_lifetime
           /\ ev.idx >= raw_len(ev.pre)
           /\ frame_holder = ev.pre
      /\ ev.resp.kind = "Ok" /\ ev.calls = <<>> =>
           /\ AgeThen <= cfg.frame_lifetime
           /\ ev.idx < Len(ev.pre.decoded_frames)
           /\ ev.resp.frame = ev.pre.decoded_frames[ev.idx + 1]
           /\ frame_holder = ev.pre

\* C27 witness: a request whose index was out of bounds was handled on a stale
\* cache that held a memo, and was answered OldFrame.
C27_Witness ==
    /\ Handled
    /\ AgeThen > cfg.frame_lifetime
    /\ ev.idx >= raw_len(ev.pre)
    /\ ev.pre.decoded_frames /= <<>>
    /\ ev.resp = OldFrame
    /\ is_empty(frame_holder)

\* One step of C28.
C28_Step ==
    ev'.type = "sent" =>
      /\ loop_pc \in {"check", "send"}
      /\ ev'.rid = cur.rid
      /\ ev'.delivered = (pc[cur.rid] /= "gone")
      /\ IF ev'.stale
         THEN /\ elapsed(cur.snap, now) > cfg.frame_lifetime
              /\ ev'.resp = OldFrame
              /\ frame_holder' = drain(cur.snap, now)
         ELSE \E dec \in DecoderRuns :
                LET d == decode(cur.snap, dec, cur.idx)
                IN  /\ frame_holder' = d.fh
                    /\ ev'.resp = ResponseOf(d)
      /\ actor' = "serving"
      /\ loop_pc' = "select"
      /\ pc'[cur.rid] = "new"
      /\ reply' = reply
      /\ data_req_q' = data_req_q

\* C28: a request whose caller has closed its one-shot receiver is handled
\* like any other: on a stale cache the actor drains, else FrameHolder::decode
\* runs on the request's index and memoizes what it decodes; the response is
\* computed and the send that fails changes nothing; the task goes back to
\* select!. The cache afterwards is what it is when the response is delivered.
C28_AbandonedRequestIsProcessed == [][C28_Step]_vars

\* C28 witness: the request of a caller that was gone has been handled on a
\* cache of two frames: both frames are in the memo, the response was computed
\* and not delivered, the actor serves.
C28_Witness ==
    /\ ev.type = "sent"
    /\ ~ev.delivered
    /\ ev.resp.kind = "Ok"
    /\ Len(frame_holder.decoded_frames) = 2
    /\ actor = "serving"
    /\ loop_pc = "select"

====
